---------------------------- MODULE Spec2Model ----------------------------
(***************************************************************************)
(* Cookie inventory forecast (calculate_cookie_inventory.py) and the ERP   *)
(* inventory sync (sync_inventory_from_erp.py), modelled over the Google   *)
(* Sheets store they share.                                                *)
(*                                                                         *)
(* Representation                                                          *)
(*  - a text such as an item code is a tuple of one-character strings,     *)
(*    so that strip(), upper() and the last character can be computed;     *)
(*  - a piece quantity is a fixed-point integer counting 1/Scale pieces    *)
(*    (v stands for v/Scale); a box count is a whole number of boxes and   *)
(*    a pieces-per-box quantity counts 1/Scale pieces, so the product      *)
(*    box_qty * pieces_per_box is again a count of 1/Scale pieces;         *)
(*  - a datetime is [day, tod]: a day number and a time of day (0 is       *)
(*    00:00:00);                                                           *)
(*  - a worksheet cell holding a number or a date is [k, v]: k = "num"     *)
(*    or "date" for a text that parses to v, "empty" for an empty cell,    *)
(*    "bad" for any other text;                                            *)
(*  - a worksheet is [exists, rows]; rows are tuples of cells, the header  *)
(*    row first, as get_all_values returns them.                           *)
(***************************************************************************)
EXTENDS Integers, Sequences, FiniteSets, TLC

VARIABLES
    now,                 \* the wall clock, a datetime
    invSheet,            \* worksheet 庫存狀態 (opening inventory)
    indexSheet,          \* worksheet Index
    bomSheet,            \* worksheet BOM
    prodSheet,           \* worksheet 生產排程 (production schedule)
    asmSheet,            \* worksheet 組裝計劃 (assembly plan)
    detailSheet,         \* worksheet 庫存預估明細 (forecast detail)
    pc,                  \* position of calculate_cookie_inventory
    today,
    initial_inventory,
    cookie_names,
    bom,
    production_schedule,
    assembly_schedule,
    all_cookies,
    current_inventory,
    day_offset,
    detail_rows,
    result,              \* what calculate_cookie_inventory returned, "none" before
    threw,               \* history: the steps of this run that raised
    detailSheet0,        \* history: the detail worksheet when the run began
    erpData,             \* what the ERP inventory query returns
    spc,                 \* position of sync_cookie_inventory
    cookie_codes,
    filtered_inventory,
    existing_data,
    final_data,
    sync_result,         \* what sync_cookie_inventory returned, "none" before
    runs,                \* the calls of calculate_cookie_inventory that returned
    firstRun,            \* history: what the first call read, computed and wrote
    log,                 \* the warnings logged, in order: [kind, row]
    is_running,          \* CookieInventoryGUI.is_running
    buttons_enabled,     \* the state of the six task buttons
    status,              \* the text of the status label
    dialog,              \* the message box shown last
    threads,             \* the worker threads started: [task, state]
    after_queue          \* the callbacks root.after(0, ...) has queued

vars == <<now, invSheet, indexSheet, bomSheet, prodSheet, asmSheet,
          detailSheet, pc, today, initial_inventory, cookie_names, bom,
          production_schedule, assembly_schedule, all_cookies,
          current_inventory, day_offset, detail_rows, result, threw,
          detailSheet0, erpData, spc, cookie_codes, filtered_inventory,
          existing_data, final_data, sync_result, runs, firstRun, log,
          is_running, buttons_enabled, status, dialog, threads, after_queue>>

guiVars == <<is_running, buttons_enabled, status, dialog, threads, after_queue>>

calcVarsOnly == <<detailSheet, pc, today, initial_inventory, cookie_names, bom,
                  production_schedule, assembly_schedule, all_cookies,
                  current_inventory, day_offset, detail_rows, result, threw,
                  detailSheet0, runs, firstRun, log>>

runVars == <<runs, firstRun>>

sheetVars == <<now, invSheet, indexSheet, bomSheet, prodSheet, asmSheet>>

syncVars == <<erpData, spc, cookie_codes, filtered_inventory, existing_data,
              final_data, sync_result>>

calcVars == <<bomSheet, prodSheet, asmSheet, detailSheet, pc, today,
              initial_inventory, cookie_names, bom, production_schedule,
              assembly_schedule, all_cookies, current_inventory, day_offset,
              detail_rows, result, threw, detailSheet0, runs, firstRun, log,
              is_running, buttons_enabled, status, dialog, threads, after_queue>>

-----------------------------------------------------------------------------
(* Program constants *)

LEAD_TIME_DAYS == 2
FORECAST_DAYS == 21

INVENTORY_DETAIL_HEADERS ==
    <<"date", "code", "name", "beginning", "demand", "completion",
      "ending", "shortage", "shortage_qty">>

(* Bounds of the model *)

Scale == 2           \* a piece quantity v stands for v/Scale pieces
NowDay == 10         \* the day the run happens
MaxInvRows == 2
MaxBomRows == 2
MaxProdRows == 2
MaxAsmRows == 2
StaleLen == 50       \* data rows left in the detail sheet by an earlier run
MaxRuns == 1         \* calls of calculate_cookie_inventory after the first

-----------------------------------------------------------------------------
(* Texts *)

EmptyStr == <<>>
A == <<"A">>
B == <<"B">>
B1 == <<"B", "1">>
BX == <<"B", "X">>

Ord(ch) ==
    CASE ch = " " -> 32
      [] ch = "1" -> 49
      [] ch = "2" -> 50
      [] ch = "A" -> 65
      [] ch = "B" -> 66
      [] ch = "C" -> 67
      [] ch = "D" -> 68
      [] ch = "F" -> 70
      [] ch = "H" -> 72
      [] ch = "X" -> 88
      [] ch = "a" -> 97
      [] ch = "c" -> 99
      [] ch = "d" -> 100
      [] ch = "f" -> 102
      [] ch = "h" -> 104
      [] OTHER -> 0

RECURSIVE LStrip(_)
LStrip(s) ==
    IF s # <<>> /\ Head(s) = " " THEN LStrip(Tail(s)) ELSE s

RECURSIVE RStrip(_)
RStrip(s) ==
    IF s # <<>> /\ s[Len(s)] = " " THEN RStrip(SubSeq(s, 1, Len(s) - 1)) ELSE s

Strip(s) == RStrip(LStrip(s))

RECURSIVE StrLess(_, _)
StrLess(s, t) ==
    IF t = <<>> THEN FALSE
    ELSE IF s = <<>> THEN TRUE
    ELSE IF Ord(Head(s)) # Ord(Head(t)) THEN Ord(Head(s)) < Ord(Head(t))
    ELSE StrLess(Tail(s), Tail(t))

\* mutant of Sorted: descending order
RECURSIVE Sorted_descending(_)
Sorted_descending(S) ==
    IF S = {} THEN <<>>
    ELSE LET m == CHOOSE x \in S : \A y \in S \ {x} : StrLess(y, x)
         IN <<m>> \o Sorted_descending(S \ {m})

RECURSIVE Sorted(_)
Sorted(S) ==
    IF S = {} THEN <<>>
    ELSE LET m == CHOOSE x \in S : \A y \in S \ {x} : StrLess(x, y)
         IN <<m>> \o Sorted(S \ {m})

-----------------------------------------------------------------------------
(* Dictionaries *)

EmptyMap == <<>>

Get(m, k, default) == IF k \in DOMAIN m THEN m[k] ELSE default

Put(m, k, v) == [x \in (DOMAIN m) \cup {k} |-> IF x = k THEN v ELSE m[x]]

Add(m, k, v) == Put(m, k, Get(m, k, 0) + v)

Add2(m, k1, k2, v) == Put(m, k1, Add(Get(m, k1, EmptyMap), k2, v))

Abs(x) == IF x < 0 THEN -x ELSE x

-----------------------------------------------------------------------------
(* Dates and numbers *)

None == [day |-> -1, tod |-> -1]

DateTime(d, t) == [day |-> d, tod |-> t]

normalize_date(date) == DateTime(date.day, 0)

PlusDays(date, n) == DateTime(date.day + n, date.tod)

NumCell(v) == [k |-> "num", v |-> v]
DateCell(d) == [k |-> "date", v |-> d]
EmptyCell == [k |-> "empty", v |-> 0]
BadCell == [k |-> "bad", v |-> 0]

parse_date(cell) ==
    IF cell.k = "date" THEN normalize_date(DateTime(cell.v, 0)) ELSE None

format_date(date) == IF date = None THEN EmptyCell ELSE DateCell(date.day)

get_today_date(clock) == normalize_date(clock)

Trunc(v) == IF v >= 0 THEN (v \div Scale) * Scale ELSE -(((-v) \div Scale) * Scale)

parse_number(cell) == IF cell.k = "num" THEN Trunc(cell.v) ELSE 0

parse_float(cell) == IF cell.k = "num" THEN cell.v ELSE 0

-----------------------------------------------------------------------------
(* Worksheets.  rows holds every row of the sheet, the header row first. *)

INVENTORY_HEADERS == <<"code", "qty", "wh", "unit", "updated">>
BOM_HEADERS == <<"box", "code", "per_box">>
PRODUCTION_HEADERS == <<"date", "code", "pieces", "cdate">>
ASSEMBLY_HEADERS == <<"date", "box", "boxes">>
INDEX_HEADERS == <<"type", "code", "name">>

NoSheet == [exists |-> FALSE, rows |-> <<>>]

Sheet(rows) == [exists |-> TRUE, rows |-> rows]

read_worksheet(ws) == IF ws.exists THEN ws.rows ELSE <<>>

\* 1-based column of header_name, or default (0 stands for Python's -1)
get_header_index(headers, header_name, default) ==
    IF \E i \in 1..Len(headers) : headers[i] = header_name
    THEN CHOOSE i \in 1..Len(headers) :
            /\ headers[i] = header_name
            /\ \A j \in 1..(i - 1) : headers[j] # header_name
    ELSE default

Max2(a, b) == IF a >= b THEN a ELSE b

RECURSIVE inventory_rows(_, _, _, _, _)
inventory_rows(data, i, code_idx, qty_idx, inventory) ==
    IF i > Len(data) THEN inventory
    ELSE LET row == data[i]
             cookie_code == IF Len(row) >= Max2(code_idx, qty_idx)
                            THEN Strip(row[code_idx]) ELSE EmptyStr
         IN IF cookie_code = EmptyStr
            THEN inventory_rows(data, i + 1, code_idx, qty_idx, inventory)
            ELSE inventory_rows(data, i + 1, code_idx, qty_idx,
                     Add(inventory, cookie_code, parse_number(row[qty_idx])))

\* raised: read_worksheet threw; the exception is caught inside the reader
read_initial_inventory(ws, raised) ==
    LET inventory_data == read_worksheet(ws)
    IN IF raised \/ Len(inventory_data) <= 1 THEN EmptyMap
       ELSE inventory_rows(inventory_data, 2,
                get_header_index(inventory_data[1], "code", 1),
                get_header_index(inventory_data[1], "qty", 3),
                EmptyMap)

\* mutant of bom_rows_overwrite: the rows of one box and item are summed
RECURSIVE bom_rows_sum(_, _, _, _, _, _)
bom_rows_sum(data, i, box_idx, code_idx, qty_idx, acc) ==
    IF i > Len(data) THEN acc
    ELSE LET row == data[i]
             ok == Len(row) >= Max2(box_idx, Max2(code_idx, qty_idx))
             box_code == IF ok THEN Strip(row[box_idx]) ELSE EmptyStr
             cookie_code == IF ok THEN Strip(row[code_idx]) ELSE EmptyStr
             qty == IF ok THEN parse_float(row[qty_idx]) ELSE 0
         IN IF ok /\ box_code # EmptyStr /\ cookie_code # EmptyStr /\ qty > 0
            THEN bom_rows_sum(data, i + 1, box_idx, code_idx, qty_idx,
                     Put(acc, box_code,
                         Add(Get(acc, box_code, EmptyMap), cookie_code, qty)))
            ELSE bom_rows_sum(data, i + 1, box_idx, code_idx, qty_idx, acc)

RECURSIVE bom_rows_overwrite(_, _, _, _, _, _)
bom_rows_overwrite(data, i, box_idx, code_idx, qty_idx, acc) ==
    IF i > Len(data) THEN acc
    ELSE LET row == data[i]
             ok == Len(row) >= Max2(box_idx, Max2(code_idx, qty_idx))
             box_code == IF ok THEN Strip(row[box_idx]) ELSE EmptyStr
             cookie_code == IF ok THEN Strip(row[code_idx]) ELSE EmptyStr
             qty == IF ok THEN parse_float(row[qty_idx]) ELSE 0
         IN IF ok /\ box_code # EmptyStr /\ cookie_code # EmptyStr /\ qty > 0
            THEN bom_rows_overwrite(data, i + 1, box_idx, code_idx, qty_idx,
                     Put(acc, box_code,
                         Put(Get(acc, box_code, EmptyMap), cookie_code, qty)))
            ELSE bom_rows_overwrite(data, i + 1, box_idx, code_idx, qty_idx, acc)

read_bom(ws) ==
    LET bom_data == read_worksheet(ws)
    IN IF Len(bom_data) <= 1 THEN EmptyMap
       ELSE bom_rows_overwrite(bom_data, 2,
                get_header_index(bom_data[1], "box", 1),
                get_header_index(bom_data[1], "code", 2),
                get_header_index(bom_data[1], "per_box", 3),
                EmptyMap)

\* mutant of completion_date_of: the row's own completion date not consulted
completion_date_of_lead_only(row, production_date, completion_date_idx) ==
    normalize_date(PlusDays(production_date, LEAD_TIME_DAYS))

completion_date_of(row, production_date, completion_date_idx) ==
    IF completion_date_idx >= 1 /\ completion_date_idx <= Len(row)
          /\ row[completion_date_idx].k # "empty"
          /\ parse_date(row[completion_date_idx]) # None
    THEN normalize_date(parse_date(row[completion_date_idx]))
    ELSE normalize_date(PlusDays(production_date, LEAD_TIME_DAYS))

\* mutant of production_rows: a row whose start date does not parse ends the
\* reading of the table
RECURSIVE production_rows_stop(_, _, _, _, _, _, _, _)
production_rows_stop(data, i, min_production_date, date_idx, code_idx, qty_idx, cdate_idx, production) ==
    IF i > Len(data) THEN production
    ELSE LET row == data[i]
             ok == Len(row) >= Max2(date_idx, Max2(code_idx, qty_idx))
             production_date == IF ok THEN parse_date(row[date_idx]) ELSE None
             cookie_code == IF ok THEN Strip(row[code_idx]) ELSE EmptyStr
             qty_pieces == IF ok THEN parse_float(row[qty_idx]) ELSE 0
             keep == /\ ok
                     /\ production_date # None
                     /\ ~(production_date.day < min_production_date)
                     /\ cookie_code # EmptyStr
                     /\ qty_pieces > 0
         IN IF ok /\ production_date = None THEN production
            ELSE production_rows_stop(data, i + 1, min_production_date, date_idx,
                     code_idx, qty_idx, cdate_idx,
                     IF keep
                     THEN Add2(production,
                               completion_date_of(row, production_date, cdate_idx),
                               cookie_code, qty_pieces)
                     ELSE production)

RECURSIVE production_rows(_, _, _, _, _, _, _, _)
production_rows(data, i, min_production_date, date_idx, code_idx, qty_idx, cdate_idx, production) ==
    IF i > Len(data) THEN production
    ELSE LET row == data[i]
             ok == Len(row) >= Max2(date_idx, Max2(code_idx, qty_idx))
             production_date == IF ok THEN parse_date(row[date_idx]) ELSE None
             cookie_code == IF ok THEN Strip(row[code_idx]) ELSE EmptyStr
             qty_pieces == IF ok THEN parse_float(row[qty_idx]) ELSE 0
             keep == /\ ok
                     /\ production_date # None
                     /\ ~(production_date.day < min_production_date)
                     /\ cookie_code # EmptyStr
                     /\ qty_pieces > 0
         IN production_rows(data, i + 1, min_production_date, date_idx,
                code_idx, qty_idx, cdate_idx,
                IF keep
                THEN Add2(production,
                          completion_date_of(row, production_date, cdate_idx),
                          cookie_code, qty_pieces)
                ELSE production)

\* mutant of read_production_schedule: only the batches put in today or later
read_production_schedule_from_today(ws, today_) ==
    LET schedule_data == read_worksheet(ws)
    IN IF Len(schedule_data) <= 1 THEN EmptyMap
       ELSE production_rows(schedule_data, 2, today_.day,
                get_header_index(schedule_data[1], "date", 1),
                get_header_index(schedule_data[1], "code", 3),
                get_header_index(schedule_data[1], "pieces", 6),
                get_header_index(schedule_data[1], "cdate", 0),
                EmptyMap)

\* mutant of read_production_schedule: the window begins a day late
read_production_schedule_late_window(ws, today_) ==
    LET schedule_data == read_worksheet(ws)
    IN IF Len(schedule_data) <= 1 THEN EmptyMap
       ELSE production_rows(schedule_data, 2, today_.day - 2,
                get_header_index(schedule_data[1], "date", 1),
                get_header_index(schedule_data[1], "code", 3),
                get_header_index(schedule_data[1], "pieces", 6),
                get_header_index(schedule_data[1], "cdate", 0),
                EmptyMap)

read_production_schedule(ws, today_) ==
    LET schedule_data == read_worksheet(ws)
    IN IF Len(schedule_data) <= 1 THEN EmptyMap
       ELSE production_rows(schedule_data, 2, today_.day - 3,
                get_header_index(schedule_data[1], "date", 1),
                get_header_index(schedule_data[1], "code", 3),
                get_header_index(schedule_data[1], "pieces", 6),
                get_header_index(schedule_data[1], "cdate", 0),
                EmptyMap)

\* mutant of expand_box: a row's demand replaces what the date already holds
RECURSIVE expand_box_overwrite(_, _, _, _, _)
expand_box_overwrite(day_map, box_bom, codes, box_qty, n) ==
    IF n > Len(codes) THEN day_map
    ELSE expand_box_overwrite(Put(day_map, codes[n], box_qty * box_bom[codes[n]]),
                    box_bom, codes, box_qty, n + 1)

\* the demand of box_qty boxes, added cookie by cookie (codes: those left)
RECURSIVE expand_box(_, _, _, _, _)
expand_box(day_map, box_bom, codes, box_qty, n) ==
    IF n > Len(codes) THEN day_map
    ELSE expand_box(Add(day_map, codes[n], box_qty * box_bom[codes[n]]),
                    box_bom, codes, box_qty, n + 1)

\* mutant of assembly_rows: a planned count below zero is expanded as well
RECURSIVE assembly_rows_any_sign(_, _, _, _, _, _, _)
assembly_rows_any_sign(data, i, bom_, date_idx, box_idx, qty_idx, assembly) ==
    IF i > Len(data) THEN assembly
    ELSE LET row == data[i]
             ok == Len(row) >= Max2(date_idx, Max2(box_idx, qty_idx))
             assembly_date == IF ok THEN parse_date(row[date_idx]) ELSE None
             box_code == IF ok THEN Strip(row[box_idx]) ELSE EmptyStr
             box_qty == IF ok THEN parse_float(row[qty_idx]) ELSE 0
             expand == /\ ok
                       /\ assembly_date # None
                       /\ box_code # EmptyStr
                       /\ box_qty # 0
                       /\ box_code \in DOMAIN bom_
             assembly_date_key == normalize_date(assembly_date)
         IN assembly_rows_any_sign(data, i + 1, bom_, date_idx, box_idx, qty_idx,
                IF expand
                THEN Put(assembly, assembly_date_key,
                         expand_box(Get(assembly, assembly_date_key, EmptyMap),
                                    bom_[box_code],
                                    Sorted(DOMAIN bom_[box_code]),
                                    box_qty, 1))
                ELSE assembly)

RECURSIVE assembly_rows(_, _, _, _, _, _, _)
assembly_rows(data, i, bom_, date_idx, box_idx, qty_idx, assembly) ==
    IF i > Len(data) THEN assembly
    ELSE LET row == data[i]
             ok == Len(row) >= Max2(date_idx, Max2(box_idx, qty_idx))
             assembly_date == IF ok THEN parse_date(row[date_idx]) ELSE None
             box_code == IF ok THEN Strip(row[box_idx]) ELSE EmptyStr
             box_qty == IF ok THEN parse_float(row[qty_idx]) ELSE 0
             expand == /\ ok
                       /\ assembly_date # None
                       /\ box_code # EmptyStr
                       /\ box_qty > 0
                       /\ box_code \in DOMAIN bom_
             assembly_date_key == normalize_date(assembly_date)
         IN assembly_rows(data, i + 1, bom_, date_idx, box_idx, qty_idx,
                IF expand
                THEN Put(assembly, assembly_date_key,
                         expand_box(Get(assembly, assembly_date_key, EmptyMap),
                                    bom_[box_code],
                                    Sorted(DOMAIN bom_[box_code]),
                                    box_qty, 1))
                ELSE assembly)

read_assembly_schedule(ws, bom_) ==
    LET assembly_data == read_worksheet(ws)
    IN IF Len(assembly_data) <= 1 THEN EmptyMap
       ELSE assembly_rows(assembly_data, 2, bom_,
                get_header_index(assembly_data[1], "date", 1),
                get_header_index(assembly_data[1], "box", 2),
                get_header_index(assembly_data[1], "boxes", 3),
                EmptyMap)

RECURSIVE index_rows(_, _, _)
index_rows(data, i, names) ==
    IF i > Len(data) THEN names
    ELSE LET row == data[i]
         IN IF Len(row) >= 3 /\ row[1] # EmptyStr /\ row[2] # EmptyStr
                 /\ row[3] # EmptyStr /\ Strip(row[1]) = <<"C">>
            THEN index_rows(data, i + 1, Put(names, Strip(row[2]), Strip(row[3])))
            ELSE index_rows(data, i + 1, names)

\* the cookie part of get_index_dict; any failure gives the empty map
get_index_dict(ws) ==
    LET data == read_worksheet(ws)
    IN IF Len(data) < 2 THEN EmptyMap ELSE index_rows(data, 2, EmptyMap)

-----------------------------------------------------------------------------
(* The warnings the readers log.  A warning is [kind, row]: what was logged *)
(* and the row of the sheet (1 is the header row) that caused it.           *)

Warning(kind, row) == [kind |-> kind, row |-> row]

\* parse_date logs a warning for a text that is not empty and is not a date
date_warns(cell) == cell.k \notin {"date", "empty"}

\* parse_number and parse_float log a warning for a text that is not empty
\* and is not a number
number_warns(cell) == cell.k \notin {"num", "empty"}

RECURSIVE Flatten(_)
Flatten(seqs) == IF seqs = <<>> THEN <<>> ELSE Head(seqs) \o Flatten(Tail(seqs))

\* read_initial_inventory: the failed read, or parse_number on the rows read
inventory_warnings(ws, raised) ==
    LET data == read_worksheet(ws)
        code_idx == get_header_index(data[1], "code", 1)
        qty_idx == get_header_index(data[1], "qty", 3)
        of_row(i) ==
            IF /\ Len(data[i]) >= Max2(code_idx, qty_idx)
               /\ Strip(data[i][code_idx]) # EmptyStr
               /\ number_warns(data[i][qty_idx])
            THEN <<Warning("parse_number", i)>> ELSE <<>>
    IN IF raised THEN <<Warning("read_inventory_failed", 0)>>
       ELSE IF Len(data) <= 1 THEN <<>>
       ELSE Flatten([k \in 1..(Len(data) - 1) |-> of_row(k + 1)])

\* read_bom: parse_float on every row that is long enough
bom_warnings(ws) ==
    LET data == read_worksheet(ws)
        box_idx == get_header_index(data[1], "box", 1)
        code_idx == get_header_index(data[1], "code", 2)
        qty_idx == get_header_index(data[1], "per_box", 3)
        of_row(i) ==
            IF /\ Len(data[i]) >= Max2(box_idx, Max2(code_idx, qty_idx))
               /\ number_warns(data[i][qty_idx])
            THEN <<Warning("parse_float", i)>> ELSE <<>>
    IN IF Len(data) <= 1 THEN <<>>
       ELSE Flatten([k \in 1..(Len(data) - 1) |-> of_row(k + 1)])

\* read_production_schedule: parse_date on the start date, parse_float on
\* the quantity of a row inside the window that has a code, parse_date on the
\* completion date of a row with a quantity above zero
production_warnings(ws, today_) ==
    LET data == read_worksheet(ws)
        date_idx == get_header_index(data[1], "date", 1)
        code_idx == get_header_index(data[1], "code", 3)
        qty_idx == get_header_index(data[1], "pieces", 6)
        cdate_idx == get_header_index(data[1], "cdate", 0)
        of_row(i) ==
            LET row == data[i]
            IN IF Len(row) < Max2(date_idx, Max2(code_idx, qty_idx)) THEN <<>>
               ELSE IF parse_date(row[date_idx]) = None
               THEN (IF date_warns(row[date_idx])
                     THEN <<Warning("parse_date", i)>> ELSE <<>>)
               ELSE IF parse_date(row[date_idx]).day < today_.day - 3
                       \/ Strip(row[code_idx]) = EmptyStr
               THEN <<>>
               ELSE (IF number_warns(row[qty_idx])
                     THEN <<Warning("parse_float", i)>> ELSE <<>>)
                    \o (IF /\ parse_float(row[qty_idx]) > 0
                           /\ cdate_idx >= 1 /\ cdate_idx <= Len(row)
                           /\ date_warns(row[cdate_idx])
                        THEN <<Warning("parse_date", i)>> ELSE <<>>)
    IN IF Len(data) <= 1 THEN <<>>
       ELSE Flatten([k \in 1..(Len(data) - 1) |-> of_row(k + 1)])

\* mutant of assembly_warnings: a box that is not in the BOM is passed over
\* without a word
assembly_warnings_no_box(ws, bom_) ==
    LET data == read_worksheet(ws)
        date_idx == get_header_index(data[1], "date", 1)
        box_idx == get_header_index(data[1], "box", 2)
        qty_idx == get_header_index(data[1], "boxes", 3)
        of_row(i) ==
            LET row == data[i]
            IN IF Len(row) < Max2(date_idx, Max2(box_idx, qty_idx)) THEN <<>>
               ELSE IF parse_date(row[date_idx]) = None
               THEN (IF date_warns(row[date_idx])
                     THEN <<Warning("parse_date", i)>> ELSE <<>>)
               ELSE IF number_warns(row[qty_idx])
                    THEN <<Warning("parse_float", i)>> ELSE <<>>
    IN IF Len(data) <= 1 THEN <<>>
       ELSE Flatten([k \in 1..(Len(data) - 1) |-> of_row(k + 1)])

\* read_assembly_schedule: parse_date on the date, parse_float on the count,
\* and the warning for a box that is not in the BOM
assembly_warnings(ws, bom_) ==
    LET data == read_worksheet(ws)
        date_idx == get_header_index(data[1], "date", 1)
        box_idx == get_header_index(data[1], "box", 2)
        qty_idx == get_header_index(data[1], "boxes", 3)
        of_row(i) ==
            LET row == data[i]
            IN IF Len(row) < Max2(date_idx, Max2(box_idx, qty_idx)) THEN <<>>
               ELSE IF parse_date(row[date_idx]) = None
               THEN (IF date_warns(row[date_idx])
                     THEN <<Warning("parse_date", i)>> ELSE <<>>)
               ELSE (IF number_warns(row[qty_idx])
                     THEN <<Warning("parse_float", i)>> ELSE <<>>)
                    \o (IF /\ Strip(row[box_idx]) # EmptyStr
                           /\ parse_float(row[qty_idx]) > 0
                           /\ Strip(row[box_idx]) \notin DOMAIN bom_
                        THEN <<Warning("box_not_in_bom", i)>> ELSE <<>>)
    IN IF Len(data) <= 1 THEN <<>>
       ELSE Flatten([k \in 1..(Len(data) - 1) |-> of_row(k + 1)])

-----------------------------------------------------------------------------
(* Forecast engine *)

RECURSIVE UnionOfDomains(_, _)
UnionOfDomains(schedule, dates) ==
    IF dates = {} THEN {}
    ELSE LET d == CHOOSE x \in dates : TRUE
         IN (DOMAIN schedule[d]) \cup UnionOfDomains(schedule, dates \ {d})

\* mutant of get_all_cookie_codes: the consumption schedule not consulted
get_all_cookie_codes_no_assembly(initial_inventory_, production_schedule_, assembly_schedule_) ==
    (DOMAIN initial_inventory_)
        \cup UnionOfDomains(production_schedule_, DOMAIN production_schedule_)

get_all_cookie_codes(initial_inventory_, production_schedule_, assembly_schedule_) ==
    (DOMAIN initial_inventory_)
        \cup UnionOfDomains(production_schedule_, DOMAIN production_schedule_)
        \cup UnionOfDomains(assembly_schedule_, DOMAIN assembly_schedule_)

\* mutants of calculate_daily_inventory: the completion left out of the
\* ending quantity; the ending quantity not stored for the next day
calculate_daily_inventory_no_completion(date, cookie_code, current_inventory_, production_schedule_, assembly_schedule_) ==
    LET date_key == normalize_date(date)
        beginning_qty == Get(current_inventory_, cookie_code, 0)
        demand_qty == Get(Get(assembly_schedule_, date_key, EmptyMap), cookie_code, 0)
        completion_qty == Get(Get(production_schedule_, date_key, EmptyMap), cookie_code, 0)
        ending_qty == beginning_qty - demand_qty
    IN [beginning_qty |-> beginning_qty,
        completion_qty |-> completion_qty,
        demand_qty |-> demand_qty,
        ending_qty |-> ending_qty,
        current_inventory |-> Put(current_inventory_, cookie_code, ending_qty)]

calculate_daily_inventory_no_carry(date, cookie_code, current_inventory_, production_schedule_, assembly_schedule_) ==
    LET date_key == normalize_date(date)
        beginning_qty == Get(current_inventory_, cookie_code, 0)
        demand_qty == Get(Get(assembly_schedule_, date_key, EmptyMap), cookie_code, 0)
        completion_qty == Get(Get(production_schedule_, date_key, EmptyMap), cookie_code, 0)
        ending_qty == beginning_qty - demand_qty + completion_qty
    IN [beginning_qty |-> beginning_qty,
        completion_qty |-> completion_qty,
        demand_qty |-> demand_qty,
        ending_qty |-> ending_qty,
        current_inventory |-> current_inventory_]

\* mutant of calculate_daily_inventory: a deficit brought forward counts as zero
calculate_daily_inventory_clamp(date, cookie_code, current_inventory_, production_schedule_, assembly_schedule_) ==
    LET date_key == normalize_date(date)
        beginning_qty == Max2(0, Get(current_inventory_, cookie_code, 0))
        demand_qty == Get(Get(assembly_schedule_, date_key, EmptyMap), cookie_code, 0)
        completion_qty == Get(Get(production_schedule_, date_key, EmptyMap), cookie_code, 0)
        ending_qty == beginning_qty - demand_qty + completion_qty
    IN [beginning_qty |-> beginning_qty,
        completion_qty |-> completion_qty,
        demand_qty |-> demand_qty,
        ending_qty |-> ending_qty,
        current_inventory |-> Put(current_inventory_, cookie_code, ending_qty)]

\* mutant of calculate_daily_inventory: what was due the day before the date
\* is taken in as well
calculate_daily_inventory_with_overdue(date, cookie_code, current_inventory_, production_schedule_, assembly_schedule_) ==
    LET date_key == normalize_date(date)
        beginning_qty == Get(current_inventory_, cookie_code, 0)
        demand_qty == Get(Get(assembly_schedule_, date_key, EmptyMap), cookie_code, 0)
        completion_qty ==
            Get(Get(production_schedule_, date_key, EmptyMap), cookie_code, 0)
              + Get(Get(production_schedule_, PlusDays(date_key, -1), EmptyMap),
                    cookie_code, 0)
        ending_qty == beginning_qty - demand_qty + completion_qty
    IN [beginning_qty |-> beginning_qty,
        completion_qty |-> completion_qty,
        demand_qty |-> demand_qty,
        ending_qty |-> ending_qty,
        current_inventory |-> Put(current_inventory_, cookie_code, ending_qty)]

calculate_daily_inventory(date, cookie_code, current_inventory_, production_schedule_, assembly_schedule_) ==
    LET date_key == normalize_date(date)
        beginning_qty == Get(current_inventory_, cookie_code, 0)
        demand_qty == Get(Get(assembly_schedule_, date_key, EmptyMap), cookie_code, 0)
        completion_qty == Get(Get(production_schedule_, date_key, EmptyMap), cookie_code, 0)
        ending_qty == beginning_qty - demand_qty + completion_qty
    IN [beginning_qty |-> beginning_qty,
        completion_qty |-> completion_qty,
        demand_qty |-> demand_qty,
        ending_qty |-> ending_qty,
        current_inventory |-> Put(current_inventory_, cookie_code, ending_qty)]

\* mutant of create_detail_row: an ending quantity of zero flagged as short
create_detail_row_flag_zero(date, cookie_code, cookie_name, beginning_qty, completion_qty, demand_qty, ending_qty) ==
    LET shortage_qty == IF ending_qty < 0 THEN Abs(ending_qty) ELSE 0
    IN <<format_date(date), cookie_code, cookie_name, beginning_qty,
         demand_qty, completion_qty, ending_qty,
         IF ending_qty <= 0 THEN "yes" ELSE "no", shortage_qty>>

create_detail_row(date, cookie_code, cookie_name, beginning_qty, completion_qty, demand_qty, ending_qty) ==
    LET shortage_qty == IF ending_qty < 0 THEN Abs(ending_qty) ELSE 0
    IN <<format_date(date), cookie_code, cookie_name, beginning_qty,
         demand_qty, completion_qty, ending_qty,
         IF ending_qty < 0 THEN "yes" ELSE "no", shortage_qty>>

\* the inner loop of calculate_inventory_forecast for one date
RECURSIVE forecast_day(_, _, _, _, _, _, _, _)
forecast_day(date, codes, n, current_inventory_, production_schedule_, assembly_schedule_, cookie_names_, detail_rows_) ==
    IF n > Len(codes)
    THEN [current_inventory |-> current_inventory_, detail_rows |-> detail_rows_]
    ELSE LET r == calculate_daily_inventory(date, codes[n], current_inventory_,
                      production_schedule_, assembly_schedule_)
         IN forecast_day(date, codes, n + 1, r.current_inventory,
                production_schedule_, assembly_schedule_, cookie_names_,
                Append(detail_rows_,
                       create_detail_row(date, codes[n],
                           Get(cookie_names_, codes[n], EmptyStr),
                           r.beginning_qty, r.completion_qty, r.demand_qty,
                           r.ending_qty)))

-----------------------------------------------------------------------------
(* Result emitter *)

get_worksheet_create(ws) == IF ws.exists THEN ws ELSE Sheet(<<>>)

\* mutant of worksheet_clear: nothing is cleared
worksheet_clear_nothing(ws) == ws

worksheet_clear(ws) == [ws EXCEPT !.rows = <<>>]

\* update(range_name = A1:<end_col><last_row>, values): the rows of the range
\* take the values, the rows below the range keep what they hold
worksheet_update(ws, last_row, values) ==
    [ws EXCEPT !.rows =
        [i \in 1..Max2(Len(ws.rows), last_row) |->
            IF i <= last_row
            THEN (IF i <= Len(values) THEN values[i] ELSE <<>>)
            ELSE ws.rows[i]]]

-----------------------------------------------------------------------------
(* The worksheets a run may find.  One input sheet varies over every table *)
(* of up to Max..Rows rows while the others hold the default table; any    *)
(* input sheet may also be missing or hold nothing but its header.         *)

SeqUpTo(S, n) == UNION {[1..k -> S] : k \in 0..n}

W40 == <<"4">>
W50 == <<"5">>
Unit == <<"p">>
Stamp == <<"t">>

InvRowValues ==
    {<<c, NumCell(q), W40, Unit, Stamp>> : c \in {A, B, EmptyStr}, q \in {-3, 4}}
    \cup {<<A, NumCell(4), W50, Unit, Stamp>>}

BomRowValues ==
    {<<B1, c, q>> : c \in {A, B},
                    q \in {NumCell(3), NumCell(2), NumCell(0), BadCell}}

ProdRowValues ==
    {<<d, A, NumCell(4), cd>> :
        d \in {DateCell(NowDay - 4), DateCell(NowDay - 3)},
        cd \in {EmptyCell, DateCell(NowDay + 1)}}
    \cup {<<DateCell(NowDay), A, NumCell(4), EmptyCell>>,
          <<DateCell(NowDay), A, NumCell(4), BadCell>>,
          <<BadCell, A, NumCell(4), EmptyCell>>,
          <<DateCell(NowDay), A, NumCell(0), EmptyCell>>,
          <<DateCell(NowDay - 1), A, NumCell(6), EmptyCell>>,
          <<DateCell(NowDay + 1), A, NumCell(4), EmptyCell>>}

AsmRowValues ==
    {<<d, B1, NumCell(2)>> :
        d \in {DateCell(NowDay), DateCell(NowDay + 1),
               DateCell(NowDay + FORECAST_DAYS), BadCell}}
    \cup {<<DateCell(NowDay), BX, NumCell(2)>>,
          <<DateCell(NowDay), BX, NumCell(0)>>,
          <<DateCell(NowDay), B1, NumCell(0)>>}

DefaultInv ==
    Sheet(<<INVENTORY_HEADERS,
            <<A, NumCell(20), W40, Unit, Stamp>>,
            <<B, NumCell(-2), W40, Unit, Stamp>>>>)

DefaultBom ==
    Sheet(<<BOM_HEADERS, <<B1, A, NumCell(3)>>, <<B1, B, NumCell(2)>>>>)

DefaultProd ==
    Sheet(<<PRODUCTION_HEADERS, <<DateCell(NowDay), A, NumCell(8), EmptyCell>>>>)

DefaultAsm ==
    Sheet(<<ASSEMBLY_HEADERS, <<DateCell(NowDay + 1), B1, NumCell(2)>>>>)

DefaultIndex ==
    Sheet(<<INDEX_HEADERS, <<<<"C">>, A, <<"a">>>>>>)

Inputs(inv, bom_, prod, asm, detail) ==
    [inv |-> inv, bom |-> bom_, prod |-> prod, asm |-> asm, detail |-> detail]

StaleRow == <<DateCell(NowDay - 1), A, EmptyStr, 0, 0, 0, 0, "no", 0>>

StaleSheet == Sheet(<<INVENTORY_DETAIL_HEADERS>> \o [i \in 1..StaleLen |-> StaleRow])

InvOnlyA == Sheet(<<INVENTORY_HEADERS, <<A, NumCell(20), W40, Unit, Stamp>>>>)

BomOnlyA == Sheet(<<BOM_HEADERS, <<B1, A, NumCell(3)>>>>)

\* B is known from one schedule entry alone, dated after the horizon
AsmLate ==
    Sheet(<<ASSEMBLY_HEADERS, <<DateCell(NowDay + FORECAST_DAYS), B1, NumCell(2)>>>>)

ProdLate ==
    Sheet(<<PRODUCTION_HEADERS,
            <<DateCell(NowDay), B, NumCell(4), DateCell(NowDay + FORECAST_DAYS)>>>>)

\* rows with a quantity that is no number, with cells missing, with no date
\* and with no item code, between two valid rows
ProdMalformed ==
    Sheet(<<PRODUCTION_HEADERS,
            <<DateCell(NowDay), A, NumCell(4), EmptyCell>>,
            <<DateCell(NowDay), A, BadCell, EmptyCell>>,
            <<DateCell(NowDay), A>>,
            <<EmptyCell, A, NumCell(4), EmptyCell>>,
            <<DateCell(NowDay), EmptyStr, NumCell(4), EmptyCell>>,
            <<DateCell(NowDay + 1), B, NumCell(6), EmptyCell>>>>)

AsmMalformed ==
    Sheet(<<ASSEMBLY_HEADERS,
            <<DateCell(NowDay), B1, NumCell(2)>>,
            <<DateCell(NowDay), B1, BadCell>>,
            <<DateCell(NowDay), B1>>,
            <<EmptyCell, B1, NumCell(2)>>,
            <<DateCell(NowDay), EmptyStr, NumCell(2)>>,
            <<DateCell(NowDay + 1), B1, NumCell(4)>>>>)

\* B is known from one batch alone, due the day before today
ProdEarly ==
    Sheet(<<PRODUCTION_HEADERS,
            <<DateCell(NowDay - 3), B, NumCell(4), EmptyCell>>>>)

\* the BOM of a box that holds B only
BomOnlyB == Sheet(<<BOM_HEADERS, <<B1, B, NumCell(2)>>>>)

\* a plan row with a count below zero after a valid one
AsmNegative ==
    Sheet(<<ASSEMBLY_HEADERS,
            <<DateCell(NowDay), B1, NumCell(2)>>,
            <<DateCell(NowDay + 2), B1, NumCell(-4)>>>>)

InputChoices ==
    {Inputs(Sheet(<<INVENTORY_HEADERS>> \o t), DefaultBom, DefaultProd, DefaultAsm,
            StaleSheet) : t \in SeqUpTo(InvRowValues, MaxInvRows)}
    \cup
    {Inputs(DefaultInv, Sheet(<<BOM_HEADERS>> \o t), DefaultProd, DefaultAsm,
            StaleSheet) : t \in SeqUpTo(BomRowValues, MaxBomRows)}
    \cup
    {Inputs(DefaultInv, DefaultBom, Sheet(<<PRODUCTION_HEADERS>> \o t), DefaultAsm,
            StaleSheet) : t \in SeqUpTo(ProdRowValues, MaxProdRows)}
    \cup
    {Inputs(DefaultInv, DefaultBom, DefaultProd, Sheet(<<ASSEMBLY_HEADERS>> \o t),
            StaleSheet) : t \in SeqUpTo(AsmRowValues, MaxAsmRows)}
    \cup
    {Inputs(NoSheet, DefaultBom, DefaultProd, DefaultAsm, StaleSheet),
     Inputs(DefaultInv, NoSheet, DefaultProd, DefaultAsm, StaleSheet),
     Inputs(DefaultInv, DefaultBom, NoSheet, DefaultAsm, StaleSheet),
     Inputs(DefaultInv, DefaultBom, DefaultProd, NoSheet, StaleSheet),
     Inputs(DefaultInv, DefaultBom, DefaultProd, DefaultAsm, NoSheet),
     Inputs(DefaultInv, DefaultBom, DefaultProd, DefaultAsm, Sheet(<<>>)),
     Inputs(InvOnlyA, DefaultBom, DefaultProd, AsmLate, StaleSheet),
     Inputs(InvOnlyA, BomOnlyA, ProdLate, DefaultAsm, StaleSheet),
     Inputs(DefaultInv, BomOnlyA, DefaultProd, DefaultAsm, StaleSheet),
     Inputs(DefaultInv, DefaultBom, ProdMalformed, AsmMalformed, StaleSheet),
     Inputs(InvOnlyA, BomOnlyB, ProdEarly, AsmLate, StaleSheet),
     Inputs(DefaultInv, DefaultBom, DefaultProd, AsmNegative, StaleSheet)}

\* CookieInventoryGUI.__init__: no task is running
GuiIdle ==
    /\ is_running = FALSE
    /\ buttons_enabled = TRUE
    /\ status = "ready"
    /\ dialog = "none"
    /\ threads = <<>>
    /\ after_queue = <<>>

Init ==
    /\ now = DateTime(NowDay, 1)
    /\ \E in \in InputChoices :
          /\ invSheet = in.inv
          /\ bomSheet = in.bom
          /\ prodSheet = in.prod
          /\ asmSheet = in.asm
          /\ detailSheet = in.detail
    /\ indexSheet = DefaultIndex
    /\ detailSheet0 = detailSheet
    /\ pc = "start"
    /\ today = None
    /\ initial_inventory = EmptyMap
    /\ cookie_names = EmptyMap
    /\ bom = EmptyMap
    /\ production_schedule = EmptyMap
    /\ assembly_schedule = EmptyMap
    /\ all_cookies = {}
    /\ current_inventory = EmptyMap
    /\ day_offset = 0
    /\ detail_rows = <<>>
    /\ result = "none"
    /\ threw = {}
    /\ erpData = <<>>
    /\ spc = "idle"
    /\ cookie_codes = {}
    /\ filtered_inventory = <<>>
    /\ existing_data = <<>>
    /\ final_data = <<>>
    /\ sync_result = "none"
    /\ runs = 0
    /\ firstRun = <<>>
    /\ log = <<>>
    /\ GuiIdle

-----------------------------------------------------------------------------
(* calculate_cookie_inventory, one action per step.  An exception raised   *)
(* by a step and not caught inside it reaches the handler of the top-level *)
(* try, which returns False.                                               *)

Fail(step) ==
    /\ pc' = "failed"
    /\ result' = "False"
    /\ threw' = threw \cup {step}

\* GoogleSheetsHelper() and get_today_date()
Connect ==
    /\ pc = "start"
    /\ \E raises \in BOOLEAN :
          IF raises
          THEN /\ Fail("connect")
               /\ UNCHANGED today
          ELSE /\ today' = get_today_date(now)
               /\ pc' = "read_inventory"
               /\ UNCHANGED <<result, threw>>
    /\ UNCHANGED <<sheetVars, syncVars, runVars, guiVars, log, detailSheet, detailSheet0, initial_inventory,
                   cookie_names, bom, production_schedule, assembly_schedule,
                   all_cookies, current_inventory, day_offset, detail_rows>>

\* read_initial_inventory catches whatever the read raises
ReadInitialInventory ==
    /\ pc = "read_inventory"
    /\ \E raises \in BOOLEAN :
          /\ initial_inventory' = read_initial_inventory(invSheet, raises)
          /\ log' = log \o inventory_warnings(invSheet, raises)
          /\ threw' = IF raises THEN threw \cup {"inventory"} ELSE threw
    /\ pc' = "read_index"
    /\ UNCHANGED <<sheetVars, syncVars, runVars, guiVars, detailSheet, detailSheet0, today, cookie_names,
                   bom, production_schedule, assembly_schedule, all_cookies,
                   current_inventory, day_offset, detail_rows, result>>

\* get_index_dict; the read of the Index sheet is taken to succeed
ReadIndex ==
    /\ pc = "read_index"
    /\ cookie_names' = get_index_dict(indexSheet)
    /\ pc' = "read_bom"
    /\ UNCHANGED <<sheetVars, syncVars, runVars, guiVars, log, detailSheet, detailSheet0, today,
                   initial_inventory, bom, production_schedule,
                   assembly_schedule, all_cookies, current_inventory,
                   day_offset, detail_rows, result, threw>>

ReadBom ==
    /\ pc = "read_bom"
    /\ \E raises \in BOOLEAN :
          IF raises
          THEN /\ Fail("bom")
               /\ UNCHANGED <<bom, log>>
          ELSE /\ bom' = read_bom(bomSheet)
               /\ log' = log \o bom_warnings(bomSheet)
               /\ pc' = "read_production"
               /\ UNCHANGED <<result, threw>>
    /\ UNCHANGED <<sheetVars, syncVars, runVars, guiVars, detailSheet, detailSheet0, today,
                   initial_inventory, cookie_names, production_schedule,
                   assembly_schedule, all_cookies, current_inventory,
                   day_offset, detail_rows>>

ReadProductionSchedule ==
    /\ pc = "read_production"
    /\ \E raises \in BOOLEAN :
          IF raises
          THEN /\ Fail("production")
               /\ UNCHANGED <<production_schedule, log>>
          ELSE /\ production_schedule' = read_production_schedule(prodSheet, today)
               /\ log' = log \o production_warnings(prodSheet, today)
               /\ pc' = "read_assembly"
               /\ UNCHANGED <<result, threw>>
    /\ UNCHANGED <<sheetVars, syncVars, runVars, guiVars, detailSheet, detailSheet0, today,
                   initial_inventory, cookie_names, bom, assembly_schedule,
                   all_cookies, current_inventory, day_offset, detail_rows>>

ReadAssemblySchedule ==
    /\ pc = "read_assembly"
    /\ \E raises \in BOOLEAN :
          IF raises
          THEN /\ Fail("assembly")
               /\ UNCHANGED <<assembly_schedule, log>>
          ELSE /\ assembly_schedule' = read_assembly_schedule(asmSheet, bom)
               /\ log' = log \o assembly_warnings(asmSheet, bom)
               /\ pc' = "forecast_begin"
               /\ UNCHANGED <<result, threw>>
    /\ UNCHANGED <<sheetVars, syncVars, runVars, guiVars, detailSheet, detailSheet0, today,
                   initial_inventory, cookie_names, bom, production_schedule,
                   all_cookies, current_inventory, day_offset, detail_rows>>

\* mutants of ForecastBegin: the running inventory of an earlier call is
\* kept; the rows of an earlier call are kept
ForecastBegin_keep_inventory ==
    /\ pc = "forecast_begin"
    /\ all_cookies' = get_all_cookie_codes(initial_inventory,
                          production_schedule, assembly_schedule)
    /\ current_inventory' = IF runs = 0 THEN initial_inventory ELSE current_inventory
    /\ detail_rows' = <<>>
    /\ day_offset' = 0
    /\ pc' = "forecast"
    /\ UNCHANGED <<sheetVars, syncVars, runVars, guiVars, log, detailSheet, detailSheet0, today,
                   initial_inventory, cookie_names, bom, production_schedule,
                   assembly_schedule, result, threw>>

ForecastBegin_keep_rows ==
    /\ pc = "forecast_begin"
    /\ all_cookies' = get_all_cookie_codes(initial_inventory,
                          production_schedule, assembly_schedule)
    /\ current_inventory' = initial_inventory
    /\ detail_rows' = detail_rows
    /\ day_offset' = 0
    /\ pc' = "forecast"
    /\ UNCHANGED <<sheetVars, syncVars, runVars, guiVars, log, detailSheet, detailSheet0, today,
                   initial_inventory, cookie_names, bom, production_schedule,
                   assembly_schedule, result, threw>>

\* mutant of ForecastBegin: the projection starts from an empty inventory
ForecastBegin_empty_inventory ==
    /\ pc = "forecast_begin"
    /\ all_cookies' = get_all_cookie_codes(initial_inventory,
                          production_schedule, assembly_schedule)
    /\ current_inventory' = EmptyMap
    /\ detail_rows' = <<>>
    /\ day_offset' = 0
    /\ pc' = "forecast"
    /\ UNCHANGED <<sheetVars, syncVars, runVars, guiVars, log, detailSheet, detailSheet0, today,
                   initial_inventory, cookie_names, bom, production_schedule,
                   assembly_schedule, result, threw>>

\* calculate_inventory_forecast up to its loop
ForecastBegin ==
    /\ pc = "forecast_begin"
    /\ all_cookies' = get_all_cookie_codes(initial_inventory,
                          production_schedule, assembly_schedule)
    /\ current_inventory' = initial_inventory
    /\ detail_rows' = <<>>
    /\ day_offset' = 0
    /\ pc' = "forecast"
    /\ UNCHANGED <<sheetVars, syncVars, runVars, guiVars, log, detailSheet, detailSheet0, today,
                   initial_inventory, cookie_names, bom, production_schedule,
                   assembly_schedule, result, threw>>

\* one iteration of the loop over day_offset
ForecastDay ==
    /\ pc = "forecast"
    /\ day_offset < FORECAST_DAYS
    /\ LET date == PlusDays(today, day_offset)
           r == forecast_day(date, Sorted(all_cookies), 1, current_inventory,
                    production_schedule, assembly_schedule, cookie_names,
                    detail_rows)
       IN /\ current_inventory' = r.current_inventory
          /\ detail_rows' = r.detail_rows
    /\ day_offset' = day_offset + 1
    /\ UNCHANGED <<sheetVars, syncVars, runVars, guiVars, log, detailSheet, detailSheet0, pc, today,
                   initial_inventory, cookie_names, bom, production_schedule,
                   assembly_schedule, all_cookies, result, threw>>

\* the loop is over: calculate_inventory_forecast returns detail_rows
ForecastEnd ==
    /\ pc = "forecast"
    /\ day_offset >= FORECAST_DAYS
    /\ pc' = "write_open"
    /\ UNCHANGED <<sheetVars, syncVars, runVars, guiVars, log, detailSheet, detailSheet0, today,
                   initial_inventory, cookie_names, bom, production_schedule,
                   assembly_schedule, all_cookies, current_inventory,
                   day_offset, detail_rows, result, threw>>

\* write_worksheet_data: get_worksheet(create_if_not_exists=True)
WriteOpen ==
    /\ pc = "write_open"
    /\ \E raises \in BOOLEAN :
          IF raises
          THEN /\ Fail("open")
               /\ UNCHANGED detailSheet
          ELSE /\ detailSheet' = get_worksheet_create(detailSheet)
               /\ pc' = "write_clear"
               /\ UNCHANGED <<result, threw>>
    /\ UNCHANGED <<sheetVars, syncVars, runVars, guiVars, log, detailSheet0, today, initial_inventory,
                   cookie_names, bom, production_schedule, assembly_schedule,
                   all_cookies, current_inventory, day_offset, detail_rows>>

\* write_worksheet_data: worksheet.clear()
WriteClear ==
    /\ pc = "write_clear"
    /\ \E raises \in BOOLEAN :
          IF raises
          THEN /\ Fail("clear")
               /\ UNCHANGED detailSheet
          ELSE /\ detailSheet' = worksheet_clear(detailSheet)
               /\ pc' = "write_update"
               /\ UNCHANGED <<result, threw>>
    /\ UNCHANGED <<sheetVars, syncVars, runVars, guiVars, log, detailSheet0, today, initial_inventory,
                   cookie_names, bom, production_schedule, assembly_schedule,
                   all_cookies, current_inventory, day_offset, detail_rows>>

\* write_worksheet_data: worksheet.update(); then the run returns True
WriteUpdate ==
    /\ pc = "write_update"
    /\ \E raises \in BOOLEAN :
          IF raises
          THEN /\ Fail("update")
               /\ UNCHANGED detailSheet
          ELSE /\ LET all_data == <<INVENTORY_DETAIL_HEADERS>> \o detail_rows
                  IN detailSheet' = worksheet_update(detailSheet, Len(all_data), all_data)
               /\ pc' = "done"
               /\ result' = "True"
               /\ UNCHANGED threw
    /\ UNCHANGED <<sheetVars, syncVars, runVars, guiVars, log, detailSheet0, today, initial_inventory,
                   cookie_names, bom, production_schedule, assembly_schedule,
                   all_cookies, current_inventory, day_offset, detail_rows>>

Next ==
    \/ Connect
    \/ ReadInitialInventory
    \/ ReadIndex
    \/ ReadBom
    \/ ReadProductionSchedule
    \/ ReadAssemblySchedule
    \/ ForecastBegin
    \/ ForecastDay
    \/ ForecastEnd
    \/ WriteOpen
    \/ WriteClear
    \/ WriteUpdate

Spec == Init /\ [][Next]_vars

-----------------------------------------------------------------------------
(* The program run again over the same worksheets, later on the same day.  *)
(* The variables of the call keep what the earlier call left in them until *)
(* the steps of the new call assign them.                                  *)

\* what a call that returned True read, computed and wrote
RunRecord ==
    [today |-> today,
     initial_inventory |-> initial_inventory,
     cookie_names |-> cookie_names,
     production_schedule |-> production_schedule,
     assembly_schedule |-> assembly_schedule,
     detail_rows |-> detail_rows,
     threw |-> threw,
     table |-> detailSheet]

Rerun ==
    /\ pc = "done"
    /\ runs < MaxRuns
    /\ runs' = runs + 1
    /\ firstRun' = IF runs = 0 THEN <<RunRecord>> ELSE firstRun
    /\ \E t \in {1, 2} : now' = DateTime(now.day, t)
    /\ pc' = "start"
    /\ result' = "none"
    /\ threw' = {}
    /\ detailSheet0' = detailSheet
    /\ log' = <<>>
    /\ UNCHANGED <<invSheet, indexSheet, bomSheet, prodSheet, asmSheet, syncVars,
                   guiVars, detailSheet, today, initial_inventory, cookie_names, bom,
                   production_schedule, assembly_schedule, all_cookies,
                   current_inventory, day_offset, detail_rows>>

\* the opening-inventory table varies, the detail sheet is stale, missing or empty
RerunChoices ==
    {in \in InputChoices :
        in.bom = DefaultBom /\ in.prod = DefaultProd /\ in.asm = DefaultAsm}

RerunInit ==
    /\ now = DateTime(NowDay, 1)
    /\ \E in \in RerunChoices :
          /\ invSheet = in.inv
          /\ bomSheet = in.bom
          /\ prodSheet = in.prod
          /\ asmSheet = in.asm
          /\ detailSheet = in.detail
    /\ indexSheet = DefaultIndex
    /\ detailSheet0 = detailSheet
    /\ pc = "start"
    /\ today = None
    /\ initial_inventory = EmptyMap
    /\ cookie_names = EmptyMap
    /\ bom = EmptyMap
    /\ production_schedule = EmptyMap
    /\ assembly_schedule = EmptyMap
    /\ all_cookies = {}
    /\ current_inventory = EmptyMap
    /\ day_offset = 0
    /\ detail_rows = <<>>
    /\ result = "none"
    /\ threw = {}
    /\ erpData = <<>>
    /\ spc = "idle"
    /\ cookie_codes = {}
    /\ filtered_inventory = <<>>
    /\ existing_data = <<>>
    /\ final_data = <<>>
    /\ sync_result = "none"
    /\ runs = 0
    /\ firstRun = <<>>
    /\ log = <<>>
    /\ GuiIdle

RerunNext ==
    \/ Next
    \/ Rerun

RerunSpec == RerunInit /\ [][RerunNext]_vars

-----------------------------------------------------------------------------
(* sync_inventory_from_erp.py *)

MaxErpRows == 2

NewStamp == <<"u">>

Upper(ch) ==
    CASE ch = "a" -> "A"
      [] ch = "c" -> "C"
      [] ch = "d" -> "D"
      [] ch = "f" -> "F"
      [] ch = "h" -> "H"
      [] OTHER -> ch

convert_qty_to_float(qty) == qty

get_unit_conversion_factor(cookie_code) ==
    IF cookie_code = EmptyStr THEN 1
    ELSE LET last_char == Upper(cookie_code[Len(cookie_code)])
         IN CASE last_char = "C" -> 1
              [] last_char = "D" -> 2
              [] last_char = "H" -> 8
              [] last_char = "F" -> 4
              [] last_char = "A" -> 1
              [] OTHER -> 1

convert_to_pieces(qty, cookie_code) == qty * get_unit_conversion_factor(cookie_code)

normalize_cookie_code(cookie_code) ==
    IF cookie_code = EmptyStr \/ Len(cookie_code) < 2 THEN cookie_code
    ELSE IF Upper(cookie_code[Len(cookie_code)]) \in {"D", "H", "F", "A"}
         THEN SubSeq(cookie_code, 1, Len(cookie_code) - 1) \o <<"C">>
         ELSE cookie_code

get_cookie_codes_from_index(ws) == DOMAIN get_index_dict(ws)

filter_inventory_by_index(inventory_data, cookie_codes_) ==
    SelectSeq(inventory_data, LAMBDA item : Strip(item.cookie_code) \in cookie_codes_)

\* the dictionary key "<cookie code>|<warehouse code>"
RowKey(cookie_code, warehouse_code) == cookie_code \o <<"|">> \o warehouse_code

\* an existing row that takes part in the merge, and its key
KeyedRow(row) == Len(row) >= 3 /\ row[1] # EmptyStr /\ row[3] # EmptyStr

KeyOfRow(row) == RowKey(Strip(row[1]), Strip(row[3]))

\* the loop over filtered_inventory: a later item with the same key replaces
\* the row of an earlier one
RECURSIVE process_items(_, _, _)
process_items(items, n, processed_data) ==
    IF n > Len(items) THEN processed_data
    ELSE LET item == items[n]
             original_cookie_code == Strip(item.cookie_code)
             original_qty == convert_qty_to_float(item.qty)
             qty_in_pieces == convert_to_pieces(original_qty, original_cookie_code)
             cookie_code == normalize_cookie_code(original_cookie_code)
             warehouse_code == Strip(item.warehouse_code)
             row_data == <<cookie_code, NumCell(qty_in_pieces), warehouse_code,
                           Unit, NewStamp>>
         IN IF original_cookie_code = EmptyStr
            THEN process_items(items, n + 1, processed_data)
            ELSE process_items(items, n + 1,
                     Put(processed_data, RowKey(cookie_code, warehouse_code), row_data))

\* the existing rows whose key the ERP did not return, a later row with the
\* same key replacing an earlier one
RECURSIVE keep_existing(_, _, _, _)
keep_existing(data_rows, n, processed_data, final_data_dict) ==
    IF n > Len(data_rows) THEN final_data_dict
    ELSE LET row == data_rows[n]
         IN IF KeyedRow(row) /\ KeyOfRow(row) \notin DOMAIN processed_data
            THEN keep_existing(data_rows, n + 1, processed_data,
                     Put(final_data_dict, KeyOfRow(row), row))
            ELSE keep_existing(data_rows, n + 1, processed_data, final_data_dict)

\* the sort key of a row: (cookie code, warehouse code)
RowLess(r1, r2) ==
    LET c1 == IF Len(r1) > 0 THEN Strip(r1[1]) ELSE EmptyStr
        c2 == IF Len(r2) > 0 THEN Strip(r2[1]) ELSE EmptyStr
        w1 == IF Len(r1) > 2 THEN Strip(r1[3]) ELSE EmptyStr
        w2 == IF Len(r2) > 2 THEN Strip(r2[3]) ELSE EmptyStr
    IN StrLess(c1, c2) \/ (c1 = c2 /\ StrLess(w1, w2))

RECURSIVE sorted_rows(_)
sorted_rows(rows) ==
    IF rows = {} THEN <<>>
    ELSE LET m == CHOOSE r \in rows : \A q \in rows \ {r} : ~RowLess(q, r)
         IN <<m>> \o sorted_rows(rows \ {m})

\* lines 144-210 of sync_cookie_inventory: the table to write
merge_inventory(existing_data_, filtered_inventory_) ==
    LET headers == INVENTORY_HEADERS
        data_rows == IF Len(existing_data_) > 1 THEN Tail(existing_data_) ELSE <<>>
        processed_data == process_items(filtered_inventory_, 1, EmptyMap)
        kept == keep_existing(data_rows, 1, processed_data, EmptyMap)
        final_data_dict == [k \in (DOMAIN kept) \cup (DOMAIN processed_data) |->
                               IF k \in DOMAIN processed_data
                               THEN processed_data[k] ELSE kept[k]]
    IN <<headers>> \o sorted_rows({final_data_dict[k] : k \in DOMAIN final_data_dict})

Cookie1C == <<"1", "C">>
Cookie1D == <<"1", "D">>
Cookie1d == <<"1", "d">>
Cookie1A == <<"1", "A">>
Cookie2C == <<"2", "C">>
Cookie2H == <<"2", "H">>
Cookie2F == <<"2", "F">>
CookieD == <<"D">>

ErpCodes == {Cookie1C, Cookie1D, Cookie1d, Cookie1A, Cookie2H, Cookie2F, CookieD}

ErpItem(c, q, w) == [cookie_code |-> c, qty |-> q, warehouse_code |-> w]

ErpItemValues ==
    {ErpItem(c, q, W40) : c \in ErpCodes, q \in {3, 5}}
    \cup {ErpItem(Cookie1C, 3, W50)}

\* the query groups by item code and warehouse: one record for each pair
ErpResults ==
    {t \in SeqUpTo(ErpItemValues, MaxErpRows) :
        \A i, j \in 1..Len(t) :
            (t[i].cookie_code = t[j].cookie_code
             /\ t[i].warehouse_code = t[j].warehouse_code) => i = j}

IndexRow(c) == <<<<"C">>, c, <<"n">>>>

IndexAll ==
    Sheet(<<INDEX_HEADERS, IndexRow(Cookie1C), IndexRow(Cookie1D), IndexRow(Cookie1d),
            IndexRow(Cookie1A), IndexRow(Cookie2H), IndexRow(Cookie2F),
            IndexRow(CookieD)>>)

IndexSome == Sheet(<<INDEX_HEADERS, IndexRow(Cookie1C), IndexRow(Cookie2H)>>)

IndexEmpty == Sheet(<<INDEX_HEADERS>>)

ExistingInv ==
    Sheet(<<INVENTORY_HEADERS,
            <<Cookie1C, NumCell(7), W40, Unit, Stamp>>,
            <<Cookie2C, NumCell(9), W50, Unit, Stamp>>>>)

\* a table adjusted by hand: a row with no warehouse code
ExistingNoWarehouse ==
    Sheet(<<INVENTORY_HEADERS,
            <<Cookie1C, NumCell(7), W40, Unit, Stamp>>,
            <<Cookie2C, NumCell(9), EmptyStr, Unit, Stamp>>>>)

SyncInit ==
    /\ now = DateTime(NowDay, 1)
    /\ erpData \in ErpResults
    /\ indexSheet \in {IndexAll, IndexSome, IndexEmpty}
    /\ invSheet \in {NoSheet, Sheet(<<INVENTORY_HEADERS>>), ExistingInv,
                      ExistingNoWarehouse}
    /\ spc = "start"
    /\ cookie_codes = {}
    /\ filtered_inventory = <<>>
    /\ existing_data = <<>>
    /\ final_data = <<>>
    /\ sync_result = "none"
    /\ bomSheet = DefaultBom
    /\ prodSheet = DefaultProd
    /\ asmSheet = DefaultAsm
    /\ detailSheet = NoSheet
    /\ detailSheet0 = NoSheet
    /\ pc = "idle"
    /\ today = None
    /\ initial_inventory = EmptyMap
    /\ cookie_names = EmptyMap
    /\ bom = EmptyMap
    /\ production_schedule = EmptyMap
    /\ assembly_schedule = EmptyMap
    /\ all_cookies = {}
    /\ current_inventory = EmptyMap
    /\ day_offset = 0
    /\ detail_rows = <<>>
    /\ result = "none"
    /\ threw = {}
    /\ runs = 0
    /\ firstRun = <<>>
    /\ log = <<>>
    /\ GuiIdle

SyncFail ==
    /\ spc' = "failed"
    /\ sync_result' = "False"

\* GoogleSheetsHelper()
SyncConnect ==
    /\ spc = "start"
    /\ \E raises \in BOOLEAN :
          IF raises THEN SyncFail
          ELSE spc' = "read_index" /\ UNCHANGED sync_result
    /\ UNCHANGED <<now, invSheet, indexSheet, calcVars, erpData, cookie_codes,
                   filtered_inventory, existing_data, final_data>>

\* get_cookie_codes_from_index; without codes the sync returns False
SyncReadIndex ==
    /\ spc = "read_index"
    /\ cookie_codes' = get_cookie_codes_from_index(indexSheet)
    /\ IF cookie_codes' = {} THEN SyncFail
       ELSE spc' = "query" /\ UNCHANGED sync_result
    /\ UNCHANGED <<now, invSheet, indexSheet, calcVars, erpData,
                   filtered_inventory, existing_data, final_data>>

\* ERPDBHelper(), get_cookie_inventory() and filter_inventory_by_index
SyncQuery ==
    /\ spc = "query"
    /\ \E raises \in BOOLEAN :
          IF raises
          THEN SyncFail /\ UNCHANGED filtered_inventory
          ELSE /\ filtered_inventory' = filter_inventory_by_index(erpData, cookie_codes)
               /\ IF erpData = <<>> \/ filtered_inventory' = <<>>
                  THEN SyncFail
                  ELSE spc' = "read_existing" /\ UNCHANGED sync_result
    /\ UNCHANGED <<now, invSheet, indexSheet, calcVars, erpData, cookie_codes,
                   existing_data, final_data>>

\* get_worksheet(create_if_not_exists=True) and read_worksheet
SyncReadExisting ==
    /\ spc = "read_existing"
    /\ \E raises \in BOOLEAN :
          IF raises
          THEN SyncFail /\ UNCHANGED <<invSheet, existing_data>>
          ELSE /\ invSheet' = get_worksheet_create(invSheet)
               /\ existing_data' = read_worksheet(invSheet')
               /\ spc' = "merge"
               /\ UNCHANGED sync_result
    /\ UNCHANGED <<now, indexSheet, calcVars, erpData, cookie_codes,
                   filtered_inventory, final_data>>

\* the rows to write are put together in memory
SyncMerge ==
    /\ spc = "merge"
    /\ final_data' = merge_inventory(existing_data, filtered_inventory)
    /\ spc' = "clear"
    /\ UNCHANGED <<now, invSheet, indexSheet, calcVars, erpData, cookie_codes,
                   filtered_inventory, existing_data, sync_result>>

\* worksheet.clear()
SyncClear ==
    /\ spc = "clear"
    /\ \E raises \in BOOLEAN :
          IF raises
          THEN SyncFail /\ UNCHANGED invSheet
          ELSE /\ invSheet' = worksheet_clear(invSheet)
               /\ spc' = "update"
               /\ UNCHANGED sync_result
    /\ UNCHANGED <<now, indexSheet, calcVars, erpData, cookie_codes,
                   filtered_inventory, existing_data, final_data>>

\* worksheet.update(); then the sync returns True
SyncUpdate ==
    /\ spc = "update"
    /\ \E raises \in BOOLEAN :
          IF raises
          THEN SyncFail /\ UNCHANGED invSheet
          ELSE /\ invSheet' = worksheet_update(invSheet, Len(final_data), final_data)
               /\ spc' = "done"
               /\ sync_result' = "True"
    /\ UNCHANGED <<now, indexSheet, calcVars, erpData, cookie_codes,
                   filtered_inventory, existing_data, final_data>>

SyncNext ==
    \/ SyncConnect
    \/ SyncReadIndex
    \/ SyncQuery
    \/ SyncReadExisting
    \/ SyncMerge
    \/ SyncClear
    \/ SyncUpdate

SyncSpec == SyncInit /\ [][SyncNext]_vars

-----------------------------------------------------------------------------
(* Properties *)

RowIdx == 1..Len(detail_rows)

\* calculate_inventory_forecast has just returned its rows
ForecastReturned == pc = "write_open"

\* the item codes known to the three maps the engine is given
KnownCodes ==
    (DOMAIN initial_inventory)
        \cup UNION {DOMAIN production_schedule[d] : d \in DOMAIN production_schedule}
        \cup UNION {DOMAIN assembly_schedule[d] : d \in DOMAIN assembly_schedule}

RECURSIVE SumFn(_)
SumFn(f) ==
    IF DOMAIN f = {} THEN 0
    ELSE LET i == CHOOSE x \in DOMAIN f : TRUE
         IN f[i] + SumFn([j \in (DOMAIN f) \ {i} |-> f[j]])

\* C1: in every emitted row, ending = opening + incoming - required
C1_Conservation ==
    \A i \in RowIdx :
        detail_rows[i][7] = detail_rows[i][4] + detail_rows[i][6] - detail_rows[i][5]

\* a row with an opening quantity, a completion and a consumption at once
C1_Witness ==
    \E i \in RowIdx :
        /\ detail_rows[i][4] # 0
        /\ detail_rows[i][5] # 0
        /\ detail_rows[i][6] # 0

\* C2: in the rows calculate_inventory_forecast returns, for every item the
\* opening quantity of day N+1 is the ending quantity of day N
C2_CarryForward ==
    ForecastReturned => \A i, j \in RowIdx :
        (/\ detail_rows[i][2] = detail_rows[j][2]
         /\ detail_rows[j][1].v = detail_rows[i][1].v + 1)
        => detail_rows[j][4] = detail_rows[i][7]

\* the whole horizon is emitted and some item's day-N ending, carried into
\* day N+1, differs from its day-N opening
C2_Witness ==
    /\ pc = "done"
    /\ \E i, j \in RowIdx :
          /\ detail_rows[i][2] = detail_rows[j][2]
          /\ detail_rows[j][1].v = detail_rows[i][1].v + 1
          /\ detail_rows[i][7] # detail_rows[i][4]
          /\ detail_rows[j][4] = detail_rows[i][7]

\* C3: in the rows calculate_inventory_forecast returns, every known item
\* code has exactly one row for each day today .. today + FORECAST_DAYS - 1
C3_Completeness ==
    ForecastReturned =>
        \A c \in KnownCodes : \A n \in 0..(FORECAST_DAYS - 1) :
            Cardinality({i \in RowIdx :
                /\ detail_rows[i][2] = c
                /\ detail_rows[i][1] = DateCell(today.day + n)}) = 1

\* the horizon is done and an item known only from a consumption entry dated
\* after the horizon has its rows
C3_Witness ==
    /\ pc = "done"
    /\ day_offset = FORECAST_DAYS
    /\ \E c \in KnownCodes :
          /\ c \notin DOMAIN initial_inventory
          /\ \A d \in DOMAIN production_schedule : c \notin DOMAIN production_schedule[d]
          /\ \A d \in DOMAIN assembly_schedule :
                c \in DOMAIN assembly_schedule[d] => d.day > today.day + FORECAST_DAYS - 1
          /\ \E i \in RowIdx : detail_rows[i][2] = c

\* C4: the shortage flag is "yes" exactly when ending < 0, and the shortage
\* quantity is max(0, -ending)
C4_Shortage ==
    \A i \in RowIdx :
        /\ (detail_rows[i][8] = "yes") <=> (detail_rows[i][7] < 0)
        /\ detail_rows[i][9] = Max2(0, -detail_rows[i][7])

\* rows with a negative, a zero and a positive ending quantity
C4_Witness ==
    /\ \E i \in RowIdx : detail_rows[i][7] < 0 /\ detail_rows[i][8] = "yes"
    /\ \E i \in RowIdx : detail_rows[i][7] = 0
    /\ \E i \in RowIdx : detail_rows[i][7] > 0

\* read_assembly_schedule has just returned the consumption schedule
AssemblyRead == pc = "forecast_begin"

\* the plan rows of date d whose box is in the BOM and whose count is > 0
ValidPlanRows(d) ==
    {i \in 2..Len(asmSheet.rows) :
        /\ Len(asmSheet.rows[i]) >= 3
        /\ parse_date(asmSheet.rows[i][1]) = DateTime(d, 0)
        /\ Strip(asmSheet.rows[i][2]) \in DOMAIN bom
        /\ parse_float(asmSheet.rows[i][3]) > 0}

PlanDays == (NowDay - 1)..(NowDay + FORECAST_DAYS + 1)

\* C5: the consumption of item x on date d is the sum over the valid plan
\* rows of date d of planned count * BOM[box][x]
C5_BomExpansion ==
    AssemblyRead =>
        /\ \A k \in DOMAIN assembly_schedule : k.tod = 0 /\ k.day \in PlanDays
        /\ \A d \in PlanDays : \A x \in {A, B} :
              Get(Get(assembly_schedule, DateTime(d, 0), EmptyMap), x, 0)
                = SumFn([i \in ValidPlanRows(d) |->
                            parse_float(asmSheet.rows[i][3])
                              * Get(bom[Strip(asmSheet.rows[i][2])], x, 0)])

\* two valid plan rows for the same box and date
C5_Witness ==
    /\ AssemblyRead
    /\ \E d \in PlanDays : \E i, j \in ValidPlanRows(d) :
          /\ i # j
          /\ asmSheet.rows[i][2] = asmSheet.rows[j][2]
          /\ Get(Get(assembly_schedule, DateTime(d, 0), EmptyMap), A, 0) > 0

Returned == pc \in {"done", "failed"}

RequiredReads == {"inventory", "bom", "production", "assembly"}

WriteSteps == {"open", "clear", "update"}

\* the detail worksheet reads as it did when the run began
DetailUntouched == read_worksheet(detailSheet) = read_worksheet(detailSheet0)

\* C6: a run in which the read of a required source table raised (all four
\* worksheets being there) returns failure and has not written the detail table
C6_ReadFailureAborts ==
    (/\ Returned
     /\ threw \cap RequiredReads # {}
     /\ \A ws \in {invSheet, bomSheet, prodSheet, asmSheet} : ws.exists)
        => (result = "False" /\ DetailUntouched)

\* C7: a run that finds a required source worksheet missing returns failure
\* and has not written the detail table (also when no call raised)
C7_MissingSheetFatal ==
    (/\ Returned
     /\ \E ws \in {invSheet, bomSheet, prodSheet, asmSheet} : ~ws.exists
     /\ threw = {})
        => (result = "False" /\ DetailUntouched)

\* C8: after a write that raised at any of its steps (and nothing before it
\* did), the detail table holds what it held before the run, and the run
\* returns failure
C8_FailedWriteKeepsTable ==
    (pc = "failed" /\ threw # {} /\ threw \subseteq WriteSteps)
        => (result = "False" /\ DetailUntouched)

\* C9: after a successful run the detail table is the header row followed by
\* this run's detail rows, and nothing else
C9_FullReplace ==
    pc = "done" =>
        /\ detailSheet.exists
        /\ detailSheet.rows = <<INVENTORY_DETAIL_HEADERS>> \o detail_rows

\* a successful run over a table that held more rows than the run wrote
C9_Witness ==
    /\ pc = "done"
    /\ Len(detailSheet0.rows) > Len(detail_rows) + 1
    /\ Len(detail_rows) > 0

\* the records the sync takes over that end under item code c in warehouse w
RecordsOf(c, w) ==
    {i \in 1..Len(erpData) :
        /\ Strip(erpData[i].cookie_code) \in cookie_codes
        /\ normalize_cookie_code(Strip(erpData[i].cookie_code)) = c
        /\ Strip(erpData[i].warehouse_code) = w}

SheetRowsOf(c, w) ==
    {i \in 2..Len(invSheet.rows) : invSheet.rows[i][1] = c /\ invSheet.rows[i][3] = w}

\* C10: after a sync, when two ERP records of one warehouse normalize to the
\* same item code, the table holds for that code and warehouse one row with
\* the sum of the converted quantities
C10_SuffixVariantsSummed ==
    spc = "done" =>
        \A i, j \in 1..Len(erpData) :
            LET c == normalize_cookie_code(Strip(erpData[i].cookie_code))
                w == Strip(erpData[i].warehouse_code)
            IN (i # j /\ i \in RecordsOf(c, w) /\ j \in RecordsOf(c, w))
               => /\ Cardinality(SheetRowsOf(c, w)) = 1
                  /\ \A r \in SheetRowsOf(c, w) :
                        invSheet.rows[r][2]
                          = NumCell(SumFn([k \in RecordsOf(c, w) |->
                                convert_to_pieces(convert_qty_to_float(erpData[k].qty),
                                                  Strip(erpData[k].cookie_code))]))

\* sync_cookie_inventory has put its rows together from filtered_inventory
ItemsProcessed == spc \in {"clear", "update", "done"}

ItemIdx == 1..Len(filtered_inventory)

\* the code and the last character, upper-cased, of the i-th record taken over
ItemCode(i) == Strip(filtered_inventory[i].cookie_code)

ItemSuffix(i) ==
    IF ItemCode(i) = EmptyStr THEN "" ELSE Upper(ItemCode(i)[Len(ItemCode(i))])

\* a code with its last character rewritten to C
WithSuffixC(code) == SubSeq(code, 1, Len(code) - 1) \o <<"C">>

\* C11: for every record the sync processes, a conversion factor other than 1
\* comes with the code renamed to suffix C
C11_ConvertAndRenameTogether ==
    ItemsProcessed =>
        \A i \in ItemIdx :
            get_unit_conversion_factor(ItemCode(i)) # 1
                => normalize_cookie_code(ItemCode(i)) = WithSuffixC(ItemCode(i))

\* the records taken over that end under item code c in warehouse w
SameKeyItems(c, w) ==
    {i \in ItemIdx : /\ normalize_cookie_code(ItemCode(i)) = c
                     /\ Strip(filtered_inventory[i].warehouse_code) = w}

\* the row the sync prepared for item code c in warehouse w
PreparedRows(c, w) ==
    {r \in 2..Len(final_data) : final_data[r][1] = c /\ final_data[r][3] = w}

\* C12: a record with suffix D, F or H (in either case) and quantity q is
\* written as suffix C with 2q, 4q or 8q; suffix C or A keeps the quantity;
\* any other code is written as it is with the quantity as it is.  (Records
\* sharing the row of another record are left to C10.)
C12_UnitNormalization ==
    ItemsProcessed =>
        \A i \in ItemIdx :
            LET code == ItemCode(i)
                q == filtered_inventory[i].qty
                w == Strip(filtered_inventory[i].warehouse_code)
                sfx == ItemSuffix(i)
                wantCode == IF sfx \in {"D", "F", "H"} THEN WithSuffixC(code) ELSE code
                wantQty == CASE sfx = "D" -> 2 * q
                             [] sfx = "F" -> 4 * q
                             [] sfx = "H" -> 8 * q
                             [] OTHER -> q
            IN /\ sfx \in {"D", "F", "H"} =>
                     /\ normalize_cookie_code(code) = wantCode
                     /\ convert_to_pieces(convert_qty_to_float(q), code) = wantQty
               /\ sfx \in {"C", "A"} =>
                     convert_to_pieces(convert_qty_to_float(q), code) = q
               /\ sfx \notin {"D", "F", "H", "C", "A"} =>
                     /\ normalize_cookie_code(code) = code
                     /\ convert_to_pieces(convert_qty_to_float(q), code) = q
               /\ (code # EmptyStr /\ sfx \notin {"C", "A"}
                     /\ Cardinality(SameKeyItems(normalize_cookie_code(code), w)) = 1)
                    => \E r \in PreparedRows(wantCode, w) :
                          final_data[r][2] = NumCell(wantQty)


\* read_initial_inventory has just returned, its read not having raised
InventoryRead == pc = "read_index" /\ "inventory" \notin threw

\* the rows of the opening-inventory table that carry item code c
InvRowsOf(c) ==
    {i \in 2..Len(read_worksheet(invSheet)) :
        Len(invSheet.rows[i]) >= 2 /\ Strip(invSheet.rows[i][1]) = c}

InvCodes ==
    {Strip(invSheet.rows[i][1]) : i \in 2..Len(read_worksheet(invSheet))} \ {EmptyStr}

\* the quantities of the rows of item code c, added up as they stand
ExactOpening(c) ==
    SumFn([i \in InvRowsOf(c) |->
              IF invSheet.rows[i][2].k = "num" THEN invSheet.rows[i][2].v ELSE 0])

\* C13: read_initial_inventory returns for every item code of the table the
\* sum of the quantities of its rows, over all warehouses, and nothing for
\* the rows without a code
C13_InventorySum ==
    InventoryRead =>
        /\ DOMAIN initial_inventory = InvCodes
        /\ \A c \in InvCodes : initial_inventory[c] = ExactOpening(c)

\* C16: the opening quantity of the first projected day is, for every item,
\* the exact sum of the item's quantities in the table, fractions included
C16_NoTruncation ==
    (ForecastReturned /\ "inventory" \notin threw) =>
        \A i \in RowIdx :
            detail_rows[i][1] = DateCell(today.day)
                => detail_rows[i][4] = ExactOpening(detail_rows[i][2])

\* read_production_schedule has just returned the completion schedule
ProductionRead == pc = "read_assembly"

BatchIdx == 2..Len(read_worksheet(prodSheet))

BatchStart(i) == parse_date(prodSheet.rows[i][1])

BatchQty(i) == parse_float(prodSheet.rows[i][3])

\* a batch row with a start date, an item code and a quantity above zero
ValidBatch(i) ==
    /\ Len(prodSheet.rows[i]) >= 3
    /\ BatchStart(i) # None
    /\ Strip(prodSheet.rows[i][2]) # EmptyStr
    /\ BatchQty(i) > 0

\* the start date is on or after today - 3 days
InWindow(i) == BatchStart(i).day >= today.day - 3

KeptBatches == {i \in BatchIdx : ValidBatch(i) /\ InWindow(i)}

\* the row's own completion date when it has one that parses, otherwise the
\* start date plus the lead time
CompletionDay(i) ==
    IF prodSheet.rows[i][4].k = "date" THEN prodSheet.rows[i][4].v
    ELSE BatchStart(i).day + LEAD_TIME_DAYS

ProdDays == (NowDay - 5)..(NowDay + FORECAST_DAYS + 3)

\* C14: the completion schedule holds, for every date and item, the sum of
\* the quantities of the kept batch rows of that item whose completion date
\* (the row's own, else start + lead time) is that date
C14_CompletionDate ==
    ProductionRead =>
        /\ \A k \in DOMAIN production_schedule : k.tod = 0 /\ k.day \in ProdDays
        /\ \A d \in ProdDays : \A x \in {A, B} :
              Get(Get(production_schedule, DateTime(d, 0), EmptyMap), x, 0)
                = SumFn([i \in {j \in KeptBatches :
                                   /\ CompletionDay(j) = d
                                   /\ Strip(prodSheet.rows[j][2]) = x}
                            |-> BatchQty(i)])

\* two kept batches of one item complete on the same date, one by its own
\* completion date and one by the lead time
C14_Witness ==
    /\ ProductionRead
    /\ \E i, j \in KeptBatches :
          /\ prodSheet.rows[i][4].k = "date"
          /\ prodSheet.rows[j][4].k # "date"
          /\ CompletionDay(i) = CompletionDay(j)
          /\ prodSheet.rows[i][2] = prodSheet.rows[j][2]
          /\ production_schedule[DateTime(CompletionDay(i), 0)][Strip(prodSheet.rows[i][2])]
                = BatchQty(i) + BatchQty(j)

\* the quantities a schedule holds, all dates and items together
ScheduleTotal(schedule) ==
    SumFn([d \in DOMAIN schedule |-> SumFn(schedule[d])])

HorizonDays == 0..(FORECAST_DAYS - 1)

\* item c has no completion and no consumption on any day of the horizon
Quiet(c) ==
    \A n \in HorizonDays :
        /\ Get(Get(production_schedule, DateTime(today.day + n, 0), EmptyMap), c, 0) = 0
        /\ Get(Get(assembly_schedule, DateTime(today.day + n, 0), EmptyMap), c, 0) = 0

\* every quantity the table holds for item c is a whole number of pieces
WholeRows(c) ==
    \A i \in InvRowsOf(c) :
        invSheet.rows[i][2].k = "num" => invSheet.rows[i][2].v % Scale = 0

C19_RowOrder ==
    ForecastReturned =>
        \A i \in 1..(Len(detail_rows) - 1) :
            \/ detail_rows[i][1].v < detail_rows[i + 1][1].v
            \/ /\ detail_rows[i][1].v = detail_rows[i + 1][1].v
               /\ StrLess(detail_rows[i][2], detail_rows[i + 1][2])

\* a whole horizon of rows for two items
C19_Witness ==
    /\ ForecastReturned
    /\ Cardinality(all_cookies) >= 2
    /\ Len(detail_rows) = FORECAST_DAYS * Cardinality(all_cookies)
    /\ detail_rows[1][1] = detail_rows[2][1]
    /\ detail_rows[1][1].v < detail_rows[Len(detail_rows)][1].v

\* a later call, of which the first call and this one raised nothing
LaterRun == runs >= 1 /\ firstRun # <<>> /\ threw = {} /\ firstRun[1].threw = {}

\* C18: when calculate_inventory_forecast is given, in a later call, the maps
\* and the today it was given in the first call, it returns the same rows in
\* the same order
C18_Determinism ==
    (/\ ForecastReturned
     /\ runs >= 1
     /\ firstRun # <<>>
     /\ firstRun[1].today = today
     /\ firstRun[1].initial_inventory = initial_inventory
     /\ firstRun[1].cookie_names = cookie_names
     /\ firstRun[1].production_schedule = production_schedule
     /\ firstRun[1].assembly_schedule = assembly_schedule)
        => detail_rows = firstRun[1].detail_rows

\* the engine has run a second time on the inputs of the first call, at a
\* later time of the same day, after the first call changed the inventory
C18_Witness ==
    /\ ForecastReturned
    /\ runs >= 1
    /\ now.tod = 2
    /\ firstRun[1].initial_inventory = initial_inventory
    /\ firstRun[1].production_schedule = production_schedule
    /\ firstRun[1].assembly_schedule = assembly_schedule
    /\ current_inventory # initial_inventory
    /\ Len(detail_rows) >= 2 * FORECAST_DAYS
    /\ detail_rows = firstRun[1].detail_rows

\* C20: a second run over the same tables on the same day leaves the detail
\* table as the first run left it
C20_RerunIdempotent ==
    (pc = "done" /\ LaterRun) => detailSheet = firstRun[1].table

\* two runs have written a table of at least two items' rows, the first of
\* them over a sheet that held other rows
C20_Witness ==
    /\ pc = "done"
    /\ LaterRun
    /\ Len(detailSheet.rows) > 2 * FORECAST_DAYS
    /\ detailSheet = firstRun[1].table
    /\ detailSheet0 = firstRun[1].table

-----------------------------------------------------------------------------
(* Warnings and tolerance of bad rows *)

\* the sequence without its i-th element
RemoveAt(seq, i) == SubSeq(seq, 1, i - 1) \o SubSeq(seq, i + 1, Len(seq))

\* the worksheet without its i-th row
WithoutRow(ws, i) == [ws EXCEPT !.rows = RemoveAt(ws.rows, i)]

Logged(kind, i) == \E k \in 1..Len(log) : log[k] = Warning(kind, i)

PlanIdx == 2..Len(read_worksheet(asmSheet))

\* a plan row that names a box the BOM does not hold
UnknownBox(i) ==
    /\ Len(asmSheet.rows[i]) >= 3
    /\ Strip(asmSheet.rows[i][2]) # EmptyStr
    /\ Strip(asmSheet.rows[i][2]) \notin DOMAIN bom

\* a plan row with a date that parses and a planned count above zero
ValidPlan(i) ==
    /\ parse_date(asmSheet.rows[i][1]) # None
    /\ parse_float(asmSheet.rows[i][3]) > 0

BomRead == pc = "read_production"

BomIdx == 2..Len(read_worksheet(bomSheet))

\* a BOM row with a box and an item whose quantity is not above zero
DroppedBomRow(i) ==
    /\ Strip(bomSheet.rows[i][1]) # EmptyStr
    /\ Strip(bomSheet.rows[i][2]) # EmptyStr
    /\ parse_float(bomSheet.rows[i][3]) <= 0

\* C22: every quantity of the BOM read is above zero, every BOM row with a
\* quantity that is zero, negative or unparsable has a warning in the log,
\* and the other rows are read as they are without it
C22_BomPositiveAndWarned ==
    BomRead =>
        /\ \A b \in DOMAIN bom : \A c \in DOMAIN bom[b] : bom[b][c] > 0
        /\ \A i \in BomIdx : DroppedBomRow(i) =>
              /\ Logged("parse_float", i)
              /\ bom = read_bom(WithoutRow(bomSheet, i))

\* a production row without its required cells, or whose start date or
\* quantity is not a date or a number
MalformedBatch(i) ==
    \/ Len(prodSheet.rows[i]) < 3
    \/ prodSheet.rows[i][1].k # "date"
    \/ prodSheet.rows[i][2] = EmptyStr
    \/ prodSheet.rows[i][3].k # "num"

\* a production row whose own completion date is not a date
BadCompletionDate(i) ==
    /\ Len(prodSheet.rows[i]) >= 4
    /\ prodSheet.rows[i][4].k = "bad"

\* the worksheet with the completion date of row i left empty
WithoutCompletionDate(ws, i) == [ws EXCEPT !.rows[i][4] = EmptyCell]

\* a plan row without its required cells, or whose date or count is not a
\* date or a number
MalformedPlan(i) ==
    \/ Len(asmSheet.rows[i]) < 3
    \/ asmSheet.rows[i][1].k # "date"
    \/ asmSheet.rows[i][2] = EmptyStr
    \/ asmSheet.rows[i][3].k # "num"

-----------------------------------------------------------------------------
(* The window of start dates *)

\* row i of the production table is read into the completion schedule: the
\* schedule differs from the one read from the table without the row
BatchIsRead(i) ==
    production_schedule # read_production_schedule(WithoutRow(prodSheet, i), today)

-----------------------------------------------------------------------------
(* The projection in closed form *)

\* what the schedule holds for item c on the day n days after today
Scheduled(schedule, c, n) ==
    Get(Get(schedule, DateTime(today.day + n, 0), EmptyMap), c, 0)

\* the sum over the days today .. today + n
RECURSIVE ScheduledUpTo(_, _, _)
ScheduledUpTo(schedule, c, n) ==
    IF n < 0 THEN 0
    ELSE Scheduled(schedule, c, n) + ScheduledUpTo(schedule, c, n - 1)

\* C25: in the rows calculate_inventory_forecast returns, the ending quantity
\* of item c on day N is the opening inventory of c (0 when the inventory
\* does not hold c) plus its completions of today .. today + N minus its
\* consumption of today .. today + N, and the opening quantity of day 0 is
\* the opening inventory
C25_ClosedForm ==
    ForecastReturned =>
        /\ \A c \in all_cookies : \A n \in HorizonDays :
              \E i \in RowIdx :
                  detail_rows[i][2] = c /\ detail_rows[i][1].v = today.day + n
        /\ \A i \in RowIdx :
              LET c == detail_rows[i][2]
                  n == detail_rows[i][1].v - today.day
              IN /\ detail_rows[i][7]
                      = Get(initial_inventory, c, 0)
                          + ScheduledUpTo(production_schedule, c, n)
                          - ScheduledUpTo(assembly_schedule, c, n)
                 /\ n = 0 => detail_rows[i][4] = Get(initial_inventory, c, 0)

\* an item with an opening quantity, completions and consumption on two
\* different days, and an item the inventory does not hold, projected to the
\* last day
C25_Witness ==
    /\ ForecastReturned
    /\ \E c \in all_cookies :
          /\ Get(initial_inventory, c, 0) # 0
          /\ \E m, n \in HorizonDays :
                /\ m # n
                /\ Scheduled(production_schedule, c, m) > 0
                /\ Scheduled(assembly_schedule, c, n) > 0
    /\ \E i \in RowIdx :
          /\ detail_rows[i][2] \notin DOMAIN initial_inventory
          /\ detail_rows[i][1].v = today.day + FORECAST_DAYS - 1
          /\ detail_rows[i][7] # 0

-----------------------------------------------------------------------------
(* What the sync keeps of the table it finds *)

\* the rows sync_cookie_inventory has made from the ERP records, by key
ErpRows == process_items(filtered_inventory, 1, EmptyMap)

\* the data rows the table held when the sync read it
ExistingIdx == 2..Len(existing_data)

SheetHolds(row) == \E r \in 2..Len(invSheet.rows) : invSheet.rows[r] = row

\* C26: after a sync, every row the table held whose (item code, warehouse)
\* key the ERP did not return is in the table as it was, and every row whose
\* key the ERP returned has given way to the row made from the ERP record
C26_ExistingRowsPreserved ==
    spc = "done" =>
        \A n \in ExistingIdx :
            LET row == existing_data[n]
            IN (Len(row) >= 3 /\ row[1] # EmptyStr) =>
                  IF KeyOfRow(row) \in DOMAIN ErpRows
                  THEN /\ SheetHolds(ErpRows[KeyOfRow(row)])
                       /\ \A r \in 2..Len(invSheet.rows) :
                             KeyOfRow(invSheet.rows[r]) = KeyOfRow(row)
                                => invSheet.rows[r] = ErpRows[KeyOfRow(row)]
                  ELSE SheetHolds(row)

-----------------------------------------------------------------------------
(* Schedule entries outside the horizon *)

\* the rows of the day n days after today
DayRows(n) ==
    SubSeq(detail_rows, n * Cardinality(all_cookies) + 1,
           (n + 1) * Cardinality(all_cookies))

\* the running inventory as the rows show it at the start of that day: the
\* opening inventory on the first day, the ending quantities of the day
\* before on the others
InventoryBefore(n) ==
    IF n = 0 THEN initial_inventory
    ELSE [c \in all_cookies |->
             LET i == CHOOSE j \in RowIdx :
                          /\ detail_rows[j][2] = c
                          /\ detail_rows[j][1].v = today.day + n - 1
             IN detail_rows[i][7]]

OutsideHorizon(d) ==
    d.day < today.day \/ d.day > today.day + FORECAST_DAYS - 1

\* the schedule without its entries dated before today or after the last day
WithinHorizon(schedule) ==
    [d \in {x \in DOMAIN schedule : ~OutsideHorizon(x)} |-> schedule[d]]

\* the item codes of the entries dated outside the horizon
OutsideCodes(schedule) ==
    UNION {DOMAIN schedule[d] : d \in {x \in DOMAIN schedule : OutsideHorizon(x)}}

\* C27: the rows calculate_inventory_forecast returns are, day by day, the
\* rows it yields for the same items when every completion and consumption
\* entry dated before today or after today + FORECAST_DAYS - 1 is taken out
\* of the schedules, and the items of those entries have a row on every day
C27_OutsideHorizonIgnored ==
    ForecastReturned =>
        /\ Len(detail_rows) = FORECAST_DAYS * Cardinality(all_cookies)
        /\ \A n \in HorizonDays :
              DayRows(n)
                = forecast_day(PlusDays(today, n), Sorted(all_cookies), 1,
                      InventoryBefore(n),
                      WithinHorizon(production_schedule),
                      WithinHorizon(assembly_schedule), cookie_names,
                      <<>>).detail_rows
        /\ \A c \in OutsideCodes(production_schedule)
                      \cup OutsideCodes(assembly_schedule) :
              \A n \in HorizonDays : \E i \in RowIdx :
                  detail_rows[i][2] = c /\ detail_rows[i][1].v = today.day + n

\* an item known only from a completion due yesterday and a consumption
\* planned for the day after the last one: it is listed, with no quantity
C27_Witness ==
    /\ ForecastReturned
    /\ B \in OutsideCodes(production_schedule)
    /\ B \in OutsideCodes(assembly_schedule)
    /\ \E d \in DOMAIN production_schedule : d.day < today.day
    /\ \E d \in DOMAIN assembly_schedule : d.day > today.day + FORECAST_DAYS - 1
    /\ B \notin DOMAIN initial_inventory
    /\ Cardinality({i \in RowIdx : detail_rows[i][2] = B}) = FORECAST_DAYS
    /\ \A i \in RowIdx : detail_rows[i][2] = B =>
          /\ detail_rows[i][4] = 0 /\ detail_rows[i][5] = 0
          /\ detail_rows[i][6] = 0 /\ detail_rows[i][7] = 0

-----------------------------------------------------------------------------
(* Shortages over the days *)

\* the rows of a day follow the sorted item codes: the row of the same item
\* k days later is k * Cardinality(all_cookies) rows further on
DaysLater(i, k) == i + k * Cardinality(all_cookies)

\* the greatest M - N such that the item of row i (day N) has no completion
\* on the days N+1 .. M, counted up from m
RECURSIVE NoCompletionDays(_, _)
NoCompletionDays(i, m) ==
    IF /\ DaysLater(i, m + 1) <= Len(detail_rows)
       /\ detail_rows[DaysLater(i, m + 1)][6] = 0
    THEN NoCompletionDays(i, m + 1)
    ELSE m

\* C28: with the schedules the readers build, when the ending quantity of an
\* item is negative on day N and the item has no completion on the days
\* N+1 .. M, every day N+1 .. M is flagged as a shortage and the shortage
\* quantity of each of those days is at least that of the day before it
C28_ShortagePersists ==
    ForecastReturned =>
        \A i \in RowIdx :
            detail_rows[i][7] < 0 =>
                \A k \in 1..NoCompletionDays(i, 0) :
                    /\ detail_rows[DaysLater(i, k)][2] = detail_rows[i][2]
                    /\ detail_rows[DaysLater(i, k)][1].v = detail_rows[i][1].v + k
                    /\ detail_rows[DaysLater(i, k)][8] = "yes"
                    /\ detail_rows[DaysLater(i, k)][9]
                         >= detail_rows[DaysLater(i, k - 1)][9]

\* an item short on the first day, with no completion, whose shortage grows
\* on a later day and lasts to the end of the horizon
C28_Witness ==
    /\ ForecastReturned
    /\ \E i \in 1..Cardinality(all_cookies) :
          /\ detail_rows[i][7] < 0
          /\ \A k \in 1..(FORECAST_DAYS - 1) : detail_rows[DaysLater(i, k)][6] = 0
          /\ \E k \in 1..(FORECAST_DAYS - 1) :
                detail_rows[DaysLater(i, k)][9] > detail_rows[i][9]
          /\ detail_rows[DaysLater(i, FORECAST_DAYS - 1)][8] = "yes"
          /\ detail_rows[DaysLater(i, FORECAST_DAYS - 1)][2] = detail_rows[i][2]

-----------------------------------------------------------------------------
(* Several BOM rows for one box and item *)

\* the valid BOM rows of box b and item c
BomRowsOf(b, c) ==
    {i \in BomIdx :
        /\ Len(bomSheet.rows[i]) >= 3
        /\ Strip(bomSheet.rows[i][1]) = b
        /\ Strip(bomSheet.rows[i][2]) = c
        /\ parse_float(bomSheet.rows[i][3]) > 0}

\* the quantity of the last of them, 0 when there is none
LastBomQty(b, c) ==
    IF BomRowsOf(b, c) = {} THEN 0
    ELSE LET last == CHOOSE i \in BomRowsOf(b, c) : \A j \in BomRowsOf(b, c) : j <= i
         IN parse_float(bomSheet.rows[last][3])

\* the dates the plan rows and the consumption schedule name
PlanDates ==
    {asmSheet.rows[i][1].v : i \in {j \in PlanIdx : Len(asmSheet.rows[j]) >= 1
                                                    /\ asmSheet.rows[j][1].k = "date"}}
        \cup {k.day : k \in DOMAIN assembly_schedule}

\* C30: the BOM read holds for a box and an item the quantity of the last
\* valid row of that box and item, and the consumption of a date is the sum
\* over the valid plan rows of planned count * that last quantity
C30_LastBomRowWins ==
    AssemblyRead =>
        /\ \A b \in {B1, BX} : \A c \in {A, B} :
              Get(Get(bom, b, EmptyMap), c, 0) = LastBomQty(b, c)
        /\ \A d \in PlanDates : \A c \in {A, B} :
              Get(Get(assembly_schedule, DateTime(d, 0), EmptyMap), c, 0)
                = SumFn([i \in ValidPlanRows(d) |->
                            parse_float(asmSheet.rows[i][3])
                              * LastBomQty(Strip(asmSheet.rows[i][2]), c)])

\* two valid BOM rows of one box and item with different quantities, and a
\* plan row of that box expanded with the second quantity
C30_Witness ==
    /\ AssemblyRead
    /\ \E i, j \in BomRowsOf(B1, A) :
          /\ i < j
          /\ parse_float(bomSheet.rows[i][3]) # parse_float(bomSheet.rows[j][3])
          /\ bom[B1][A] = parse_float(bomSheet.rows[j][3])
          /\ \E d \in PlanDays : \E r \in ValidPlanRows(d) :
                assembly_schedule[DateTime(d, 0)][A]
                  = parse_float(asmSheet.rows[r][3]) * parse_float(bomSheet.rows[j][3])

-----------------------------------------------------------------------------
(* The window: six task buttons, one worker thread per task started.  The   *)
(* handlers and the callbacks queued with root.after run on the UI thread,   *)
(* one at a time; a worker thread runs beside them.                          *)

MaxThreads == 2

Tasks == {"sync_index", "sync_inventory", "sync_wip", "sync_production",
          "sync_receipt", "calculate"}

\* mutant of set_buttons_state: the buttons are set, is_running is not
set_buttons_state_buttons_only(enabled) ==
    [buttons_enabled |-> enabled, is_running |-> FALSE]

\* _set_buttons_state: the six buttons and is_running
set_buttons_state(enabled) ==
    [buttons_enabled |-> enabled, is_running |-> ~enabled]

Callback(fn, arg, thread) == [fn |-> fn, arg |-> arg, thread |-> thread]

GuiInit ==
    /\ GuiIdle
    /\ now = DateTime(NowDay, 1)
    /\ invSheet = DefaultInv
    /\ indexSheet = DefaultIndex
    /\ bomSheet = DefaultBom
    /\ prodSheet = DefaultProd
    /\ asmSheet = DefaultAsm
    /\ detailSheet = NoSheet
    /\ detailSheet0 = NoSheet
    /\ pc = "idle"
    /\ today = None
    /\ initial_inventory = EmptyMap
    /\ cookie_names = EmptyMap
    /\ bom = EmptyMap
    /\ production_schedule = EmptyMap
    /\ assembly_schedule = EmptyMap
    /\ all_cookies = {}
    /\ current_inventory = EmptyMap
    /\ day_offset = 0
    /\ detail_rows = <<>>
    /\ result = "none"
    /\ threw = {}
    /\ erpData = <<>>
    /\ spc = "idle"
    /\ cookie_codes = {}
    /\ filtered_inventory = <<>>
    /\ existing_data = <<>>
    /\ final_data = <<>>
    /\ sync_result = "none"
    /\ runs = 0
    /\ firstRun = <<>>
    /\ log = <<>>

\* one of the six task handlers, called on the UI thread whatever the state
\* of its button: the warning when a task is running, otherwise the buttons
\* are disabled and the worker thread is started
Handler(task) ==
    /\ is_running \/ Len(threads) < MaxThreads
    /\ IF is_running
       THEN /\ dialog' = "warning"
            /\ UNCHANGED <<is_running, buttons_enabled, status, threads>>
       ELSE /\ is_running' = set_buttons_state(FALSE).is_running
            /\ buttons_enabled' = set_buttons_state(FALSE).buttons_enabled
            /\ status' = "busy"
            /\ threads' = Append(threads,
                              [task |-> task, at |-> "task", completed |-> FALSE])
            /\ UNCHANGED dialog
    /\ UNCHANGED <<sheetVars, calcVarsOnly, syncVars, after_queue>>

\* run() on the worker thread: the task returns True or False or raises, and
\* the message box is queued
WorkerReturn(w) ==
    /\ w \in DOMAIN threads
    /\ threads[w].at = "task"
    /\ \E outcome \in {"info", "error"} :
          after_queue' = Append(after_queue, Callback("messagebox", outcome, w))
    /\ threads' = [threads EXCEPT ![w].at = "finally"]
    /\ UNCHANGED <<sheetVars, calcVarsOnly, syncVars, is_running, buttons_enabled,
                   status, dialog>>

\* finally: root.after(0, self._set_buttons_state, True)
WorkerRelease(w) ==
    /\ w \in DOMAIN threads
    /\ threads[w].at = "finally"
    /\ after_queue' = Append(after_queue, Callback("set_buttons_state", "True", w))
    /\ threads' = [threads EXCEPT ![w].at = "finally_status"]
    /\ UNCHANGED <<sheetVars, calcVarsOnly, syncVars, is_running, buttons_enabled,
                   status, dialog>>

\* finally: root.after(0, lambda: self._update_status(...)), and the thread ends
WorkerEnd(w) ==
    /\ w \in DOMAIN threads
    /\ threads[w].at = "finally_status"
    /\ after_queue' = Append(after_queue, Callback("update_status", "ready", w))
    /\ threads' = [threads EXCEPT ![w].at = "ended"]
    /\ UNCHANGED <<sheetVars, calcVarsOnly, syncVars, is_running, buttons_enabled,
                   status, dialog>>

\* the UI thread runs the callback at the head of the queue
RunCallback ==
    /\ after_queue # <<>>
    /\ LET cb == Head(after_queue)
       IN /\ after_queue' = Tail(after_queue)
          /\ IF cb.fn = "set_buttons_state"
             THEN /\ is_running' = set_buttons_state(TRUE).is_running
                  /\ buttons_enabled' = set_buttons_state(TRUE).buttons_enabled
                  /\ threads' = [threads EXCEPT ![cb.thread].completed = TRUE]
             ELSE UNCHANGED <<is_running, buttons_enabled, threads>>
          /\ dialog' = IF cb.fn = "messagebox" THEN cb.arg ELSE dialog
          /\ status' = IF cb.fn = "update_status" THEN cb.arg ELSE status
    /\ UNCHANGED <<sheetVars, calcVarsOnly, syncVars>>

GuiNext ==
    \/ \E task \in Tasks : Handler(task)
    \/ \E w \in 1..MaxThreads : WorkerReturn(w)
    \/ \E w \in 1..MaxThreads : WorkerRelease(w)
    \/ \E w \in 1..MaxThreads : WorkerEnd(w)
    \/ RunCallback

GuiSpec == GuiInit /\ [][GuiNext]_vars

\* the worker threads whose completion callback has not run yet
Unfinished == {w \in DOMAIN threads : ~threads[w].completed}

\* C29: from the start of a worker thread until its completion callback has
\* run on the UI thread no second worker thread is started: at most one
\* thread has not had its completion callback run, at most one task runs,
\* and is_running is set all that time
C29_OneTaskAtATime ==
    /\ Cardinality(Unfinished) <= 1
    /\ Cardinality({w \in DOMAIN threads : threads[w].at = "task"}) <= 1
    /\ Unfinished # {} => is_running

\* a handler was called and turned away while a task ran, and a second task
\* was started after the completion callback of the first had run
C29_Witness ==
    /\ Len(threads) >= 2
    /\ threads[1].completed
    /\ ~threads[2].completed
    /\ dialog = "warning"
    /\ is_running

=============================================================================
